---------------------------- MODULE Spec2Model ----------------------------
(***************************************************************************)
(* MaaPipeline formatter: tokenizer, comment-preserving parser and layout  *)
(* engine (MaaLexer, MaaParser, MaaPipelineFormatter).                     *)
(*                                                                         *)
(* Texts are TLA+ strings; At(s, i) is the i-th UTF-16 unit of s.  The     *)
(* alphabet of the checked documents is ASCII without \u escapes.          *)
(***************************************************************************)
EXTENDS Integers, Sequences, FiniteSets, TLC

VARIABLES
    text,       \* the text handed to format()
    config,     \* the MaaFormatConfig the formatter was constructed with
    pc,         \* position inside format(): "lex", "parse", "layout", then
                \* "done" (it returned) or "failed" (it threw)
    tokens,     \* result of MaaLexer.tokenize()
    ast,        \* result of MaaParser.parse()
    drops,      \* comments discarded by the inline branches of the layout
    out,        \* the string format() returned
    err,        \* the Error format() threw, or NoError
    pass,       \* 1: format(x); 2: format(format(x))
    source,     \* the text of the first call
    first,      \* what the first call returned
    fs,         \* the workspace folder and its configuration files
    disk,       \* fs as it was when doFormat was called
    messages,   \* what was shown to the user, in order
    edits,      \* the TextEdit[] doFormat returned
    regexes,    \* lastIndex of each regular expression of MaaLexer.PATTERNS
    lexer,      \* the MaaLexer while tokenize() runs: pos, line, tokens
    parser,     \* the MaaParser while parse() runs: pos and its calls
    calls,      \* the calls of formatNode that have not returned
    defaults,   \* the object DEFAULT_CONFIG, shared by every call
    external    \* a call of formatWithExecutable: its child process, the
                \* timer and the promises

\* what only doFormat and the tokenizer's shared patterns touch
editor == <<fs, disk, messages, edits>>

\* what only a call followed loop by loop touches
steps == <<lexer, parser, calls>>

vars == <<text, config, pc, tokens, ast, drops, out, err, pass, source, first,
          fs, disk, messages, edits, regexes, lexer, parser, calls, defaults,
          external>>

-----------------------------------------------------------------------------
(* Strings *)

At(s, i) == SubSeq(s, i, i)

StartsWithAt(s, i, lit) ==
    /\ i + Len(lit) - 1 <= Len(s)
    /\ SubSeq(s, i, i + Len(lit) - 1) = lit

EndsWith(s, lit) ==
    /\ Len(lit) <= Len(s)
    /\ SubSeq(s, Len(s) - Len(lit) + 1, Len(s)) = lit

RECURSIVE Repeat(_, _)
Repeat(s, n) == IF n <= 0 THEN "" ELSE s \o Repeat(s, n - 1)

\* Array.prototype.join
RECURSIVE Join(_, _)
Join(parts, sep) ==
    IF Len(parts) = 0 THEN ""
    ELSE IF Len(parts) = 1 THEN parts[1]
    ELSE parts[1] \o sep \o Join(Tail(parts), sep)

Digits == {"0", "1", "2", "3", "4", "5", "6", "7", "8", "9"}
NonZeroDigits == Digits \ {"0"}
\* what "." of a JavaScript regular expression does not match
LineTerminators == {"\n", "\r"}
\* what \s matches
WhiteSpace == {" ", "\t", "\n", "\r", "\f"}

Min(S) == CHOOSE x \in S : \A y \in S : x <= y
Max(S) == CHOOSE x \in S : \A y \in S : x >= y

\* index of the first character at or after i that is in `set`, or that
\* starts `lit`; Len(s) + 1 if there is none
FirstIn(s, i, set) == Min({j \in i..Len(s) : At(s, j) \in set} \cup {Len(s) + 1})
FirstNotIn(s, i, set) ==
    Min({j \in i..Len(s) : At(s, j) \notin set} \cup {Len(s) + 1})
FirstOf(s, i, lit) ==
    Min({j \in i..Len(s) : StartsWithAt(s, j, lit)} \cup {Len(s) + 1})

\* last index of the run of characters of `set` that starts at i (i - 1 if none)
RunEnd(s, i, set) == FirstNotIn(s, i, set) - 1

\* (value.match(/\n/g) || []).length
CountNewlines(s) == Cardinality({j \in 1..Len(s) : At(s, j) = "\n"})

-----------------------------------------------------------------------------
(* Errors: msg names the message, line is the line number the message      *)
(* contains, NoLine when the message contains none.                        *)

NoLine == 0 - 1
NoError == [msg |-> "", line |-> NoLine, what |-> ""]
Error(m, l, w) == [msg |-> m, line |-> l, what |-> w]

-----------------------------------------------------------------------------
(* MaaLexer *)

\* //.*   : up to, not including, the next line terminator
LineCommentEnd(s, j) == FirstIn(s, j, LineTerminators) - 1

\* /\*[\s\S]*?\*/  : up to and including the first "*/" at or after j; 0 if none
BlockCommentEnd(s, j) ==
    IF FirstOf(s, j, "*/") > Len(s) THEN 0 ELSE FirstOf(s, j, "*/") + 1

\* Each Match* gives the index of the last character of the match of its
\* pattern anchored at i (sticky flag), 0 when the pattern does not match.
MatchComment(s, i) ==
    IF StartsWithAt(s, i, "//") THEN LineCommentEnd(s, i + 2)
    ELSE IF StartsWithAt(s, i, "/*") THEN BlockCommentEnd(s, i + 2)
    ELSE 0

\* (?:\\.|[^"])*"  from p, with the regex engine's backtracking: the escape
\* alternative first, then any character but the quote, then the closing quote
RECURSIVE StringBodyEnd(_, _)
StringBodyEnd(s, p) ==
    IF p > Len(s) THEN 0
    ELSE LET viaEscape ==
                 IF /\ At(s, p) = "\\"
                    /\ p + 1 <= Len(s)
                    /\ At(s, p + 1) \notin LineTerminators
                 THEN StringBodyEnd(s, p + 2) ELSE 0
             viaOther ==
                 IF At(s, p) # "\"" THEN StringBodyEnd(s, p + 1) ELSE 0
         IN  IF viaEscape # 0 THEN viaEscape
             ELSE IF viaOther # 0 THEN viaOther
             ELSE IF At(s, p) = "\"" THEN p
             ELSE 0

MatchString(s, i) ==
    IF At(s, i) = "\"" THEN StringBodyEnd(s, i + 1) ELSE 0

\* -?(?:0|[1-9]\d*)(?:\.\d+)?(?:[eE][+-]?\d+)?
MatchNumber(s, i) ==
    LET p == IF At(s, i) = "-" THEN i + 1 ELSE i
        intEnd ==
            IF p > Len(s) THEN 0
            ELSE IF At(s, p) = "0" THEN p
            ELSE IF At(s, p) \in NonZeroDigits THEN RunEnd(s, p, Digits)
            ELSE 0
        fracEnd ==
            IF /\ intEnd + 2 <= Len(s)
               /\ At(s, intEnd + 1) = "."
               /\ At(s, intEnd + 2) \in Digits
            THEN RunEnd(s, intEnd + 2, Digits) ELSE intEnd
        q == IF /\ fracEnd + 2 <= Len(s)
                /\ At(s, fracEnd + 2) \in {"+", "-"}
             THEN fracEnd + 3 ELSE fracEnd + 2
        expEnd ==
            IF /\ fracEnd + 1 <= Len(s)
               /\ At(s, fracEnd + 1) \in {"e", "E"}
               /\ q <= Len(s)
               /\ At(s, q) \in Digits
            THEN RunEnd(s, q, Digits) ELSE fracEnd
    IN  IF intEnd = 0 THEN 0 ELSE expEnd

MatchLiteral(s, i, lit) ==
    IF StartsWithAt(s, i, lit) THEN i + Len(lit) - 1 ELSE 0

MatchBoolean(s, i) ==
    IF MatchLiteral(s, i, "true") # 0 THEN MatchLiteral(s, i, "true")
    ELSE MatchLiteral(s, i, "false")

MatchWhitespace(s, i) ==
    IF At(s, i) \in WhiteSpace THEN RunEnd(s, i, WhiteSpace) ELSE 0

\* MaaLexer.PATTERNS, in its order
PATTERNS ==
    << "COMMENT", "STRING", "NUMBER", "BOOLEAN", "NULL", "LBRACE", "RBRACE",
       "LBRACKET", "RBRACKET", "COLON", "COMMA", "WHITESPACE" >>

MatchPattern(type, s, i) ==
    CASE type = "COMMENT"    -> MatchComment(s, i)
      [] type = "STRING"     -> MatchString(s, i)
      [] type = "NUMBER"     -> MatchNumber(s, i)
      [] type = "BOOLEAN"    -> MatchBoolean(s, i)
      [] type = "NULL"       -> MatchLiteral(s, i, "null")
      [] type = "LBRACE"     -> MatchLiteral(s, i, "{")
      [] type = "RBRACE"     -> MatchLiteral(s, i, "}")
      [] type = "LBRACKET"   -> MatchLiteral(s, i, "[")
      [] type = "RBRACKET"   -> MatchLiteral(s, i, "]")
      [] type = "COLON"      -> MatchLiteral(s, i, ":")
      [] type = "COMMA"      -> MatchLiteral(s, i, ",")
      [] type = "WHITESPACE" -> MatchWhitespace(s, i)

\* the first pattern of PATTERNS, from index k on, that matches at i; 0 if none
RECURSIVE FirstMatch(_, _, _)
FirstMatch(s, i, k) ==
    IF k > Len(PATTERNS) THEN 0
    ELSE IF MatchPattern(PATTERNS[k], s, i) # 0 THEN k
    ELSE FirstMatch(s, i, k + 1)

Token(type, value, line) == [type |-> type, value |-> value, line |-> line]

\* one pass of the for loop over PATTERNS at pos: the type of the first
\* pattern that matches ("" if none does) and the last index of its match
NextMatch(s, pos) ==
    LET k == FirstMatch(s, pos, 1)
    IN  IF k = 0 THEN [type |-> "", last |-> 0]
        ELSE [type |-> PATTERNS[k], last |-> MatchPattern(PATTERNS[k], s, pos)]

\* the fields of a MaaLexer (pos is 1-based here)
NewLexer == [pos |-> 1, line |-> 1, tokens |-> <<>>]

\* Advance that counts the lines of the emitted tokens only
AdvanceSkippingWhitespaceLines(s, lx, m) ==
    [pos    |-> m.last + 1,
     line   |-> IF m.type # "WHITESPACE"
                THEN lx.line + CountNewlines(SubSeq(s, lx.pos, m.last))
                ELSE lx.line,
     tokens |-> IF m.type # "WHITESPACE"
                THEN Append(lx.tokens,
                            Token(m.type, SubSeq(s, lx.pos, m.last), lx.line))
                ELSE lx.tokens]

\* the body of the `if (match)` of tokenize(), for the match m at lx.pos
Advance(s, lx, m) ==
    [pos    |-> m.last + 1,
     line   |-> lx.line + CountNewlines(SubSeq(s, lx.pos, m.last)),
     tokens |-> IF m.type # "WHITESPACE"
                THEN Append(lx.tokens,
                            Token(m.type, SubSeq(s, lx.pos, m.last), lx.line))
                ELSE lx.tokens]

\* the while loop of tokenize()
RECURSIVE TokenizeFrom(_, _)
TokenizeFrom(s, lx) ==
    IF lx.pos > Len(s) THEN [err |-> NoError, tokens |-> lx.tokens]
    ELSE IF NextMatch(s, lx.pos).type = ""
    THEN [err |-> Error("Unexpected character", lx.line, At(s, lx.pos)),
          tokens |-> <<>>]
    ELSE TokenizeFrom(s, Advance(s, lx, NextMatch(s, lx.pos)))

tokenize(s) == TokenizeFrom(s, NewLexer)

\* MaaLexer.PATTERNS is static: its regexes, and the lastIndex of each (an
\* index from 0, as in the source), are shared by every MaaLexer
InitialRegexes == [type \in {PATTERNS[k] : k \in 1..Len(PATTERNS)} |-> 0]

\* a loop that leaves lastIndex where the last exec left it
SetLastIndexKept(carried, pos) == carried

\* regex.lastIndex = this.pos
SetLastIndex(carried, pos) == pos - 1

\* regex.exec(this.text) of a sticky regex: it matches at lastIndex or not at
\* all, and leaves lastIndex after the match, or at 0 when there is none
Exec(type, s, lastIndex) ==
    LET last == IF lastIndex >= Len(s) THEN 0
                ELSE MatchPattern(type, s, lastIndex + 1)
    IN  [matched |-> last # 0,
         value |-> IF last # 0 THEN SubSeq(s, lastIndex + 1, last) ELSE "",
         lastIndex |-> last]

\* the body of the for loop for the k-th pattern, whose exec gave match:
\* the pattern that matched, or "" to go on with the next one
Tried(k, rx, match) ==
    [type |-> IF match.matched THEN PATTERNS[k] ELSE "",
     value |-> match.value,
     regexes |-> [rx EXCEPT ![PATTERNS[k]] = match.lastIndex]]

\* the for loop over PATTERNS from its k-th entry on, with the regexes rx
RECURSIVE ScanPatterns(_, _, _, _)
ScanPatterns(s, pos, k, rx) ==
    IF k > Len(PATTERNS) THEN [type |-> "", value |-> "", regexes |-> rx]
    ELSE CHOOSE found \in
            {IF tried.type # "" THEN tried
             ELSE ScanPatterns(s, pos, k + 1, tried.regexes) :
                tried \in {Tried(k, rx, Exec(PATTERNS[k], s,
                                           SetLastIndex(rx[PATTERNS[k]], pos)))}} :
            TRUE

\* the body of the `if (match)` of tokenize(), for the text exec returned
AdvanceBy(lx, m) ==
    [pos    |-> lx.pos + Len(m.value),
     line   |-> lx.line + CountNewlines(m.value),
     tokens |-> IF m.type # "WHITESPACE"
                THEN Append(lx.tokens, Token(m.type, m.value, lx.line))
                ELSE lx.tokens]

\* the while loop of tokenize() on the shared regexes: the token is the text
\* exec returned, and pos moves on by its length
RECURSIVE tokenizeSharedFrom(_, _, _)
tokenizeSharedFrom(s, lx, rx) ==
    IF lx.pos > Len(s)
    THEN [err |-> NoError, tokens |-> lx.tokens, regexes |-> rx]
    ELSE CHOOSE lexed \in
            {IF m.type = ""
             THEN [err |-> Error("Unexpected character", lx.line, At(s, lx.pos)),
                   tokens |-> <<>>, regexes |-> m.regexes]
             ELSE tokenizeSharedFrom(s, AdvanceBy(lx, m), m.regexes) :
                m \in {ScanPatterns(s, lx.pos, 1, rx)}} :
            TRUE

tokenizeShared(s, rx) == tokenizeSharedFrom(s, NewLexer, rx)

-----------------------------------------------------------------------------
(* JSON.parse, parseFloat and JSON.stringify on scalars *)

\* the single-character escapes of JSON (\b and \uXXXX are outside the
\* alphabet of the checked documents)
EscapeChars == {"\"", "\\", "/", "f", "n", "r", "t"}
Unescape(c) ==
    CASE c = "\"" -> "\""
      [] c = "\\" -> "\\"
      [] c = "/"  -> "/"
      [] c = "f"  -> "\f"
      [] c = "n"  -> "\n"
      [] c = "r"  -> "\r"
      [] c = "t"  -> "\t"
\* characters JSON.parse rejects unescaped inside a string
ControlChars == {"\n", "\r", "\t", "\f"}

\* decodes body from index i on; ok = FALSE is JSON.parse's SyntaxError
RECURSIVE DecodeFrom(_, _)
DecodeFrom(body, i) ==
    IF i > Len(body) THEN [ok |-> TRUE, val |-> ""]
    ELSE IF At(body, i) = "\\"
    THEN IF i + 1 <= Len(body) /\ At(body, i + 1) \in EscapeChars
         THEN LET rest == DecodeFrom(body, i + 2)
              IN  [ok |-> rest.ok, val |-> Unescape(At(body, i + 1)) \o rest.val]
         ELSE [ok |-> FALSE, val |-> ""]
    ELSE IF At(body, i) \in ControlChars \cup {"\""}
    THEN [ok |-> FALSE, val |-> ""]
    ELSE LET rest == DecodeFrom(body, i + 1)
         IN  [ok |-> rest.ok, val |-> At(body, i) \o rest.val]

\* JSON.parse(t.value) of a STRING token
JsonParseString(raw) == DecodeFrom(SubSeq(raw, 2, Len(raw) - 1), 1)

RECURSIVE EscapeFrom(_, _)
EscapeFrom(v, i) ==
    IF i > Len(v) THEN ""
    ELSE (CASE At(v, i) = "\"" -> "\\\""
            [] At(v, i) = "\\" -> "\\\\"
            [] At(v, i) = "\f" -> "\\f"
            [] At(v, i) = "\n" -> "\\n"
            [] At(v, i) = "\r" -> "\\r"
            [] At(v, i) = "\t" -> "\\t"
            [] OTHER           -> At(v, i)) \o EscapeFrom(v, i + 1)

\* JSON.stringify of a string
JsonStringifyString(v) == "\"" \o EscapeFrom(v, 1) \o "\""

DigitValue(c) ==
    CASE c = "0" -> 0 [] c = "1" -> 1 [] c = "2" -> 2 [] c = "3" -> 3
      [] c = "4" -> 4 [] c = "5" -> 5 [] c = "6" -> 6 [] c = "7" -> 7
      [] c = "8" -> 8 [] c = "9" -> 9
DigitChar(d) == <<"0", "1", "2", "3", "4", "5", "6", "7", "8", "9">>[d + 1]

RECURSIVE StrToNat(_, _)
StrToNat(s, acc) ==
    IF s = "" THEN acc
    ELSE StrToNat(SubSeq(s, 2, Len(s)), 10 * acc + DigitValue(At(s, 1)))

RECURSIVE NatToStr(_)
NatToStr(n) ==
    IF n < 10 THEN DigitChar(n) ELSE NatToStr(n \div 10) \o DigitChar(n % 10)

RECURSIVE StripLeadingZeros(_)
StripLeadingZeros(s) ==
    IF s # "" /\ At(s, 1) = "0" THEN StripLeadingZeros(SubSeq(s, 2, Len(s)))
    ELSE s

RECURSIVE StripTrailingZeros(_)
StripTrailingZeros(s) ==
    IF s # "" /\ At(s, Len(s)) = "0"
    THEN StripTrailingZeros(SubSeq(s, 1, Len(s) - 1))
    ELSE s

\* parseFloat of a NUMBER token: the value is 0.digits * 10^point, negated if
\* neg; digits has neither leading nor trailing zeros and is "" for zero.
\* Exact for literals of at most 15 significant digits within double range.
ParseFloat(raw) ==
    LET neg     == At(raw, 1) = "-"
        p       == IF neg THEN 2 ELSE 1
        intEnd  == RunEnd(raw, p, Digits)
        hasFrac == intEnd + 1 <= Len(raw) /\ At(raw, intEnd + 1) = "."
        fracEnd == IF hasFrac THEN RunEnd(raw, intEnd + 2, Digits) ELSE intEnd
        int     == SubSeq(raw, p, intEnd)
        frac    == IF hasFrac THEN SubSeq(raw, intEnd + 2, fracEnd) ELSE ""
        hasExp  == fracEnd + 1 <= Len(raw)
        expNeg  == hasExp /\ At(raw, fracEnd + 2) = "-"
        expFrom == IF hasExp /\ At(raw, fracEnd + 2) \in {"+", "-"}
                   THEN fracEnd + 3 ELSE fracEnd + 2
        expAbs  == IF hasExp THEN StrToNat(SubSeq(raw, expFrom, Len(raw)), 0)
                   ELSE 0
        exp     == IF expNeg THEN 0 - expAbs ELSE expAbs
        all     == int \o frac
        lead    == StripLeadingZeros(all)
        digits  == StripTrailingZeros(lead)
    IN  [neg    |-> neg,
         digits |-> digits,
         point  |-> IF digits = "" THEN 0
                    ELSE Len(int) + exp - (Len(all) - Len(lead))]

\* JSON.stringify of a finite number (Number::toString, radix 10)
JsonStringifyNumber(v) ==
    LET s == v.digits
        k == Len(s)
        n == v.point
        e == n - 1
        body ==
            IF k <= n /\ n <= 21 THEN s \o Repeat("0", n - k)
            ELSE IF 0 < n /\ n <= 21
            THEN SubSeq(s, 1, n) \o "." \o SubSeq(s, n + 1, k)
            ELSE IF 0 - 6 < n /\ n <= 0 THEN "0." \o Repeat("0", 0 - n) \o s
            ELSE (IF k = 1 THEN s ELSE At(s, 1) \o "." \o SubSeq(s, 2, k))
                 \o "e" \o (IF e < 0 THEN "-" ELSE "+")
                 \o NatToStr(IF e < 0 THEN 0 - e ELSE e)
    IN  IF k = 0 THEN "0" ELSE (IF v.neg THEN "-" ELSE "") \o body

-----------------------------------------------------------------------------
(* AST.  One record shape for every node:                                  *)
(*   kind      "String" "Number" "Boolean" "Null" (the JsonValue classes), *)
(*             "Comment", "Array", "Object", and "Pair" for the            *)
(*             {key, value} children of a JsonObject                       *)
(*   raw       rawText of a JsonValue, text of a JsonComment               *)
(*   val       value of a JsonValue                                        *)
(*   key       key of a Pair                                               *)
(*   children  children of a container; <<value>> for a Pair               *)

Node(kind, raw, val, key, children) ==
    [kind |-> kind, raw |-> raw, val |-> val, key |-> key, children |-> children]

JsonString(val, raw)  == Node("String", raw, val, "", <<>>)
JsonNumber(val, raw)  == Node("Number", raw, val, "", <<>>)
JsonBoolean(val, raw) == Node("Boolean", raw, val, "", <<>>)
JsonNull(raw)         == Node("Null", raw, "null", "", <<>>)
JsonComment(t)        == Node("Comment", t, "", "", <<>>)
JsonArray(children)   == Node("Array", "", "", "", children)
JsonObject(children)  == Node("Object", "", "", "", children)
Pair(key, value)      == Node("Pair", "", "", key, <<value>>)
NoNode                == Node("None", "", "", "", <<>>)

ValueKinds     == {"String", "Number", "Boolean", "Null"}
ContainerKinds == {"Array", "Object"}

-----------------------------------------------------------------------------
(* MaaParser.  pos is 1-based; a result is [err, node, pos], pos being the  *)
(* parser's position after the call.                                       *)

Result(e, node, pos) == [err |-> e, node |-> node, pos |-> pos]
Failed(e) == Result(e, NoNode, 0)

\* peek(): is there a token at pos, and is it of this type
HasToken(toks, pos) == pos <= Len(toks)
PeekIs(toks, pos, type) == HasToken(toks, pos) /\ toks[pos].type = type

\* consume(expectedType): the error it throws at pos, NoError if it advances
ConsumeError(toks, pos, expectedType) ==
    IF ~HasToken(toks, pos) THEN Error("Unexpected end of input", NoLine, "")
    ELSE IF toks[pos].type # expectedType
    THEN Error("Expected token type", toks[pos].line, toks[pos].type)
    ELSE NoError

\* while (this.peek()?.type === TokenType.COMMENT) push(this.parseComment()):
\* the position after the run of comments at pos, and their nodes
RECURSIVE CommentRunEnd(_, _)
CommentRunEnd(toks, pos) ==
    IF PeekIs(toks, pos, "COMMENT") THEN CommentRunEnd(toks, pos + 1) ELSE pos

CommentRun(toks, pos) ==
    [i \in 1..(CommentRunEnd(toks, pos) - pos) |->
        JsonComment(toks[pos + i - 1].value)]

RECURSIVE parseValue(_, _)
RECURSIVE ObjectLoop(_, _, _)
RECURSIVE ArrayLoop(_, _, _)

\* ObjectMember that appends the pair before the comments found inside it
ObjectMemberBeforeItsComments(toks, pos, children) ==
    LET key == JsonParseString(toks[pos].value)
        c1  == CommentRun(toks, pos + 1)
        p1  == CommentRunEnd(toks, pos + 1)
        ce  == ConsumeError(toks, p1, "COLON")
        c2  == CommentRun(toks, p1 + 1)
        p2  == CommentRunEnd(toks, p1 + 1)
        v   == parseValue(toks, p2)
    IN  IF ~key.ok THEN Failed(Error("SyntaxError", NoLine, toks[pos].value))
        ELSE IF ce # NoError THEN Failed(ce)
        ELSE IF v.err # NoError THEN Failed(v.err)
        ELSE ObjectLoop(toks, v.pos,
                 Append(children, Pair(key.val, v.node)) \o c1 \o c2)

\* the key branch of parseObject's loop: the token at pos is the STRING key
ObjectMember(toks, pos, children) ==
    LET key == JsonParseString(toks[pos].value)
        c1  == CommentRun(toks, pos + 1)
        p1  == CommentRunEnd(toks, pos + 1)
        ce  == ConsumeError(toks, p1, "COLON")
        c2  == CommentRun(toks, p1 + 1)
        p2  == CommentRunEnd(toks, p1 + 1)
        v   == parseValue(toks, p2)
    IN  IF ~key.ok THEN Failed(Error("SyntaxError", NoLine, toks[pos].value))
        ELSE IF ce # NoError THEN Failed(ce)
        ELSE IF v.err # NoError THEN Failed(v.err)
        ELSE ObjectLoop(toks, v.pos,
                 Append(children \o c1 \o c2, Pair(key.val, v.node)))

\* ObjectLoop that takes the end of the tokens for the closing brace
ObjectLoopClosedByEnd(toks, pos, children) ==
    IF ~HasToken(toks, pos) \/ toks[pos].type = "RBRACE"
    THEN Result(NoError, JsonObject(children), pos + 1)
    ELSE IF toks[pos].type = "COMMENT"
    THEN ObjectLoop(toks, pos + 1, Append(children, JsonComment(toks[pos].value)))
    ELSE IF toks[pos].type = "COMMA"
    THEN ObjectLoop(toks, pos + 1, children)
    ELSE IF toks[pos].type = "STRING"
    THEN ObjectMember(toks, pos, children)
    ELSE Failed(Error("Expected string key or comment in object", NoLine,
                      toks[pos].value))

\* the while (true) of parseObject
ObjectLoop(toks, pos, children) ==
    IF ~HasToken(toks, pos) THEN Failed(Error("Unclosed object", NoLine, ""))
    ELSE IF toks[pos].type = "RBRACE"
    THEN Result(NoError, JsonObject(children), pos + 1)
    ELSE IF toks[pos].type = "COMMENT"
    THEN ObjectLoop(toks, pos + 1, Append(children, JsonComment(toks[pos].value)))
    ELSE IF toks[pos].type = "COMMA"
    THEN ObjectLoop(toks, pos + 1, children)
    ELSE IF toks[pos].type = "STRING"
    THEN ObjectMember(toks, pos, children)
    ELSE Failed(Error("Expected string key or comment in object", NoLine,
                      toks[pos].value))

\* parseObject is only called with a LBRACE at pos
parseObject(toks, pos) == ObjectLoop(toks, pos + 1, <<>>)

\* ArrayLoop in which a comma that follows a comma stands for an element
ArrayLoopWithElisions(toks, pos, children) ==
    IF ~HasToken(toks, pos) THEN Failed(Error("Unclosed array", NoLine, ""))
    ELSE IF toks[pos].type = "RBRACKET"
    THEN Result(NoError, JsonArray(children), pos + 1)
    ELSE IF toks[pos].type = "COMMENT"
    THEN ArrayLoop(toks, pos + 1, Append(children, JsonComment(toks[pos].value)))
    ELSE IF toks[pos].type = "COMMA"
    THEN ArrayLoop(toks, pos + 1,
                   IF PeekIs(toks, pos + 1, "COMMA")
                   THEN Append(children, JsonNull("null")) ELSE children)
    ELSE LET v == parseValue(toks, pos)
         IN  IF v.err # NoError THEN Failed(v.err)
             ELSE ArrayLoop(toks, v.pos, Append(children, v.node))

\* the while (true) of parseArray
ArrayLoop(toks, pos, children) ==
    IF ~HasToken(toks, pos) THEN Failed(Error("Unclosed array", NoLine, ""))
    ELSE IF toks[pos].type = "RBRACKET"
    THEN Result(NoError, JsonArray(children), pos + 1)
    ELSE IF toks[pos].type = "COMMENT"
    THEN ArrayLoop(toks, pos + 1, Append(children, JsonComment(toks[pos].value)))
    ELSE IF toks[pos].type = "COMMA"
    THEN ArrayLoop(toks, pos + 1, children)
    ELSE LET v == parseValue(toks, pos)
         IN  IF v.err # NoError THEN Failed(v.err)
             ELSE ArrayLoop(toks, v.pos, Append(children, v.node))

\* parseArray is only called with a LBRACKET at pos
parseArray(toks, pos) == ArrayLoop(toks, pos + 1, <<>>)

parseValue(toks, pos) ==
    IF ~HasToken(toks, pos) THEN Failed(Error("Unexpected end of input", NoLine, ""))
    ELSE LET t == toks[pos] IN
         CASE t.type = "LBRACE"   -> parseObject(toks, pos)
           [] t.type = "LBRACKET" -> parseArray(toks, pos)
           [] t.type = "STRING"   ->
                LET v == JsonParseString(t.value)
                IN  IF v.ok THEN Result(NoError, JsonString(v.val, t.value), pos + 1)
                    ELSE Failed(Error("SyntaxError", NoLine, t.value))
           [] t.type = "NUMBER"   ->
                Result(NoError, JsonNumber(ParseFloat(t.value), t.value), pos + 1)
           [] t.type = "BOOLEAN"  ->
                Result(NoError, JsonBoolean(t.value = "true", t.value), pos + 1)
           [] t.type = "NULL"     ->
                Result(NoError, JsonNull(t.value), pos + 1)
           [] t.type = "COMMENT"  ->
                Result(NoError, JsonComment(t.value), pos + 1)
           [] OTHER ->
                Failed(Error("Unexpected token", t.line, t.value))

\* parse that puts the comments before the root after the root's children
parseLeadingCommentsLast(toks) ==
    LET rootComments == CommentRun(toks, 1)
        p            == CommentRunEnd(toks, 1)
        root         == parseValue(toks, p)
    IN  IF ~HasToken(toks, p) THEN Result(NoError, JsonObject(rootComments), p)
        ELSE IF root.err # NoError THEN root
        ELSE IF root.node.kind \in ContainerKinds
        THEN Result(NoError,
                    [root.node EXCEPT !.children = @ \o rootComments], root.pos)
        ELSE root

\* parse() that, unlike the source, takes a token after the root value for an
\* error
parseToEnd(toks) ==
    LET rootComments == CommentRun(toks, 1)
        p            == CommentRunEnd(toks, 1)
        root         == parseValue(toks, p)
    IN  IF ~HasToken(toks, p) THEN Result(NoError, JsonObject(rootComments), p)
        ELSE IF root.err # NoError THEN root
        ELSE IF HasToken(toks, root.pos)
        THEN Failed(Error("Unexpected token", toks[root.pos].line, toks[root.pos].type))
        ELSE IF root.node.kind \in ContainerKinds
        THEN Result(NoError,
                    [root.node EXCEPT !.children = rootComments \o @], root.pos)
        ELSE root

\* MaaParser.parse()
parse(toks) ==
    LET rootComments == CommentRun(toks, 1)
        p            == CommentRunEnd(toks, 1)
        root         == parseValue(toks, p)
    IN  IF ~HasToken(toks, p) THEN Result(NoError, JsonObject(rootComments), p)
        ELSE IF root.err # NoError THEN root
        ELSE IF root.node.kind \in ContainerKinds
        THEN Result(NoError,
                    [root.node EXCEPT !.children = rootComments \o @], root.pos)
        ELSE root

\* The same parser, one loop iteration at a time.  A MaaParser while parse()
\* runs: pos; the calls of parseObject and parseArray that have not returned,
\* innermost last, each with the children it has so far and the key its
\* result goes under; rootComments; what parse() returned or threw
NewParser ==
    [pos |-> 1, frames |-> <<>>, rootComments |-> <<>>,
     returned |-> FALSE, node |-> NoNode, err |-> NoError]

Thrown(ps, e) == [ps EXCEPT !.err = e]

\* a value comes back from parseValue: to parse() when no call is open, else
\* to the loop of the innermost call, which pushes it
ValueReturned(ps, node, key) ==
    IF ps.frames = <<>>
    THEN [ps EXCEPT !.returned = TRUE,
                    !.node = IF node.kind \in ContainerKinds
                             THEN [node EXCEPT !.children = ps.rootComments \o @]
                             ELSE node]
    ELSE [ps EXCEPT !.frames[Len(ps.frames)].children =
              Append(@, IF ps.frames[Len(ps.frames)].kind = "Object"
                        THEN Pair(key, node) ELSE node)]

\* this.parseValue() at pos: parseObject and parseArray consume the opening
\* bracket and enter their loop; every other token is a value, or an error
ValueCalled(toks, ps, key) ==
    IF PeekIs(toks, ps.pos, "LBRACE") \/ PeekIs(toks, ps.pos, "LBRACKET")
    THEN [ps EXCEPT !.pos = @ + 1,
                    !.frames = Append(@,
                        [kind |-> IF toks[ps.pos].type = "LBRACE"
                                  THEN "Object" ELSE "Array",
                         key |-> key, children |-> <<>>])]
    ELSE LET v == parseValue(toks, ps.pos)
         IN  IF v.err # NoError THEN Thrown(ps, v.err)
             ELSE ValueReturned([ps EXCEPT !.pos = v.pos], v.node, key)

\* the key branch of parseObject's loop, up to its call of parseValue
MemberStarted(toks, ps) ==
    LET n   == Len(ps.frames)
        key == JsonParseString(toks[ps.pos].value)
        c1  == CommentRun(toks, ps.pos + 1)
        p1  == CommentRunEnd(toks, ps.pos + 1)
        ce  == ConsumeError(toks, p1, "COLON")
        c2  == CommentRun(toks, p1 + 1)
        p2  == CommentRunEnd(toks, p1 + 1)
    IN  IF ~key.ok THEN Thrown(ps, Error("SyntaxError", NoLine, toks[ps.pos].value))
        ELSE IF ce # NoError THEN Thrown(ps, ce)
        ELSE ValueCalled(toks,
                 [ps EXCEPT !.pos = p2, !.frames[n].children = @ \o c1 \o c2],
                 key.val)

\* LoopIteration that looks at a comma and leaves it where it is
LoopIterationKeepingCommas(toks, ps) ==
    LET n   == Len(ps.frames)
        top == ps.frames[n]
    IN  IF ~HasToken(toks, ps.pos)
        THEN Thrown(ps, Error(IF top.kind = "Object" THEN "Unclosed object"
                              ELSE "Unclosed array", NoLine, ""))
        ELSE IF toks[ps.pos].type =
                    (IF top.kind = "Object" THEN "RBRACE" ELSE "RBRACKET")
        THEN ValueReturned([ps EXCEPT !.pos = @ + 1,
                                      !.frames = SubSeq(@, 1, n - 1)],
                           IF top.kind = "Object" THEN JsonObject(top.children)
                           ELSE JsonArray(top.children),
                           top.key)
        ELSE IF toks[ps.pos].type = "COMMENT"
        THEN [ps EXCEPT !.pos = @ + 1,
                        !.frames[n].children =
                            Append(@, JsonComment(toks[ps.pos].value))]
        ELSE IF toks[ps.pos].type = "COMMA"
        THEN ps
        ELSE IF top.kind = "Array" THEN ValueCalled(toks, ps, "")
        ELSE IF toks[ps.pos].type = "STRING" THEN MemberStarted(toks, ps)
        ELSE Thrown(ps, Error("Expected string key or comment in object", NoLine,
                              toks[ps.pos].value))

\* one iteration of the while (true) of the innermost parseObject or
\* parseArray
LoopIteration(toks, ps) ==
    LET n   == Len(ps.frames)
        top == ps.frames[n]
    IN  IF ~HasToken(toks, ps.pos)
        THEN Thrown(ps, Error(IF top.kind = "Object" THEN "Unclosed object"
                              ELSE "Unclosed array", NoLine, ""))
        ELSE IF toks[ps.pos].type =
                    (IF top.kind = "Object" THEN "RBRACE" ELSE "RBRACKET")
        THEN ValueReturned([ps EXCEPT !.pos = @ + 1,
                                      !.frames = SubSeq(@, 1, n - 1)],
                           IF top.kind = "Object" THEN JsonObject(top.children)
                           ELSE JsonArray(top.children),
                           top.key)
        ELSE IF toks[ps.pos].type = "COMMENT"
        THEN [ps EXCEPT !.pos = @ + 1,
                        !.frames[n].children =
                            Append(@, JsonComment(toks[ps.pos].value))]
        ELSE IF toks[ps.pos].type = "COMMA"
        THEN [ps EXCEPT !.pos = @ + 1]
        ELSE IF top.kind = "Array" THEN ValueCalled(toks, ps, "")
        ELSE IF toks[ps.pos].type = "STRING" THEN MemberStarted(toks, ps)
        ELSE Thrown(ps, Error("Expected string key or comment in object", NoLine,
                              toks[ps.pos].value))

\* parse() before any call is open: one iteration of its loop over the
\* leading comments, or the rest of it
ParseEntered(toks, ps) ==
    IF PeekIs(toks, ps.pos, "COMMENT")
    THEN [ps EXCEPT !.pos = @ + 1,
                    !.rootComments = Append(@, JsonComment(toks[ps.pos].value))]
    ELSE IF ~HasToken(toks, ps.pos)
    THEN [ps EXCEPT !.returned = TRUE, !.node = JsonObject(ps.rootComments)]
    ELSE ValueCalled(toks, ps, "")

ParserStep(toks, ps) ==
    IF ps.frames = <<>> THEN ParseEntered(toks, ps) ELSE LoopIteration(toks, ps)

-----------------------------------------------------------------------------
(* Configuration *)

DefaultThreshold == 50
DefaultIndentWidth == 1

DEFAULT_CONFIG ==
    [version |-> "1.0",
     indent |-> [style |-> "tab", width |-> DefaultIndentWidth],
     posix |-> [insert_final_newline |-> FALSE],
     formatting |->
        [simple_array_threshold |-> DefaultThreshold,
         coordinate_fields |->
            {"roi", "roi_offset", "target", "target_offset", "begin",
             "begin_offset", "end", "end_offset", "lower", "upper"},
         control_flow_fields |-> {"next", "interrupt", "on_error", "template"},
         always_multiline_fields |->
            {"custom_action_param", "custom_param", "parameters", "params",
             "options", "config"}],
     file_handling |->
        [preserve_comments |-> TRUE, output_suffix |-> "",
         encoding |-> "utf-8", newline |-> "LF"]]

-----------------------------------------------------------------------------
(* MaaPipelineFormatter.  Every rendering operator gives [s, drops]: the   *)
(* string the method returns and how many times, while computing it, a     *)
(* comment was discarded (formatNode's `if (inlineMode) return ""` and     *)
(* formatInlineObject's skipping of comment children).                     *)

Rendered(s, d) == [s |-> s, drops |-> d]

RECURSIVE SumDrops(_)
SumDrops(rs) == IF Len(rs) = 0 THEN 0 ELSE rs[1].drops + SumDrops(Tail(rs))

\* the constructor's indentStr
indentStr(cfg) ==
    Repeat(IF cfg.indent.style = "tab" THEN "\t" ELSE " ", cfg.indent.width)

IsComment(n) == n.kind = "Comment"

\* JSON.stringify(node.value) of a JsonValue
JsonStringify(n) ==
    CASE n.kind = "String"  -> JsonStringifyString(n.val)
      [] n.kind = "Number"  -> JsonStringifyNumber(n.val)
      [] n.kind = "Boolean" -> (IF n.val THEN "true" ELSE "false")
      [] n.kind = "Null"    -> "null"

isCoordinateArray(cfg, key, node) ==
    /\ key \in cfg.formatting.coordinate_fields
    /\ \A i \in 1..Len(node.children) : node.children[i].kind = "Number"

\* lastValueIdx that takes the last child, comment or not
lastValueIdxOfAll(children) == IF Len(children) = 0 THEN 0 - 1 ELSE Len(children)

\* index of the last child that is not a comment, -1 if there is none
lastValueIdx(children) ==
    LET valueIndices == {i \in 1..Len(children) : ~IsComment(children[i])}
    IN  IF valueIndices = {} THEN 0 - 1
        ELSE CHOOSE i \in valueIndices : \A j \in valueIndices : j <= i

RECURSIVE formatNode(_, _, _, _, _)

formatInlineArray(cfg, node) ==
    LET parts == [i \in 1..Len(node.children) |->
                     formatNode(cfg, node.children[i], 0, "", TRUE)]
    IN  Rendered("[" \o Join([i \in 1..Len(parts) |-> parts[i].s], ", ") \o "]",
                 SumDrops(parts))

\* faulty variant of formatInlineObject: the members come out in reverse order
formatInlineObjectReversed(cfg, node) ==
    LET found == SelectSeq(node.children, LAMBDA c : ~IsComment(c))
        pairs == [i \in 1..Len(found) |-> found[Len(found) + 1 - i]]
        vals  == [i \in 1..Len(pairs) |->
                     formatNode(cfg, pairs[i].children[1], 0, "", TRUE)]
        parts == [i \in 1..Len(pairs) |->
                     JsonStringifyString(pairs[i].key) \o ": " \o vals[i].s]
    IN  Rendered("{" \o Join(parts, ", ") \o "}",
                 SumDrops(vals) + (Len(node.children) - Len(pairs)))

formatInlineObject(cfg, node) ==
    LET pairs == SelectSeq(node.children, LAMBDA c : ~IsComment(c))
        vals  == [i \in 1..Len(pairs) |->
                     formatNode(cfg, pairs[i].children[1], 0, "", TRUE)]
        parts == [i \in 1..Len(pairs) |->
                     JsonStringifyString(pairs[i].key) \o ": " \o vals[i].s]
    IN  Rendered("{" \o Join(parts, ", ") \o "}",
                 SumDrops(vals) + (Len(node.children) - Len(pairs)))

\* faulty variant of shouldInlineArray: the control-flow test comes before the
\* coordinate test
shouldInlineArrayControlFirst(cfg, key, node) ==
    IF Len(node.children) = 0 THEN [inline |-> TRUE, drops |-> 0]
    ELSE IF \E i \in 1..Len(node.children) :
                node.children[i].kind \in {"Comment", "Object", "Array"}
    THEN [inline |-> FALSE, drops |-> 0]
    ELSE IF key \in cfg.formatting.control_flow_fields
    THEN [inline |-> FALSE, drops |-> 0]
    ELSE IF isCoordinateArray(cfg, key, node) THEN [inline |-> TRUE, drops |-> 0]
    ELSE LET tempStr == formatInlineArray(cfg, node)
         IN  [inline |-> Len(tempStr.s) <= cfg.formatting.simple_array_threshold,
              drops  |-> tempStr.drops]

\* faulty variant of shouldInlineArray: no control-flow test
shouldInlineArrayNoControlFlow(cfg, key, node) ==
    IF Len(node.children) = 0 THEN [inline |-> TRUE, drops |-> 0]
    ELSE IF \E i \in 1..Len(node.children) :
                node.children[i].kind \in {"Comment", "Object", "Array"}
    THEN [inline |-> FALSE, drops |-> 0]
    ELSE IF isCoordinateArray(cfg, key, node) THEN [inline |-> TRUE, drops |-> 0]
    ELSE LET tempStr == formatInlineArray(cfg, node)
         IN  [inline |-> Len(tempStr.s) <= cfg.formatting.simple_array_threshold,
              drops  |-> tempStr.drops]

\* faulty variant of shouldInlineArray: < instead of <=
shouldInlineArrayStrict(cfg, key, node) ==
    IF Len(node.children) = 0 THEN [inline |-> TRUE, drops |-> 0]
    ELSE IF \E i \in 1..Len(node.children) :
                node.children[i].kind \in {"Comment", "Object", "Array"}
    THEN [inline |-> FALSE, drops |-> 0]
    ELSE IF isCoordinateArray(cfg, key, node) THEN [inline |-> TRUE, drops |-> 0]
    ELSE IF key \in cfg.formatting.control_flow_fields
    THEN [inline |-> FALSE, drops |-> 0]
    ELSE LET tempStr == formatInlineArray(cfg, node)
         IN  [inline |-> Len(tempStr.s) < cfg.formatting.simple_array_threshold,
              drops  |-> tempStr.drops]

\* shouldInlineArray that looks for comments among the children only
shouldInlineArrayOfContainers(cfg, key, node) ==
    IF Len(node.children) = 0 THEN [inline |-> TRUE, drops |-> 0]
    ELSE IF \E i \in 1..Len(node.children) : node.children[i].kind = "Comment"
    THEN [inline |-> FALSE, drops |-> 0]
    ELSE IF isCoordinateArray(cfg, key, node) THEN [inline |-> TRUE, drops |-> 0]
    ELSE IF key \in cfg.formatting.control_flow_fields
    THEN [inline |-> FALSE, drops |-> 0]
    ELSE LET tempStr == formatInlineArray(cfg, node)
         IN  [inline |-> Len(tempStr.s) <= cfg.formatting.simple_array_threshold,
              drops  |-> tempStr.drops]

\* [inline, drops]: the decision, and the comments the length probe discarded
shouldInlineArray(cfg, key, node) ==
    IF Len(node.children) = 0 THEN [inline |-> TRUE, drops |-> 0]
    ELSE IF \E i \in 1..Len(node.children) :
                node.children[i].kind \in {"Comment", "Object", "Array"}
    THEN [inline |-> FALSE, drops |-> 0]
    ELSE IF isCoordinateArray(cfg, key, node) THEN [inline |-> TRUE, drops |-> 0]
    ELSE IF key \in cfg.formatting.control_flow_fields
    THEN [inline |-> FALSE, drops |-> 0]
    ELSE LET tempStr == formatInlineArray(cfg, node)
         IN  [inline |-> Len(tempStr.s) <= cfg.formatting.simple_array_threshold,
              drops  |-> tempStr.drops]

\* faulty variant of shouldInlineObject: no test for comment children
shouldInlineObjectIgnoringComments(cfg, key, node) ==
    IF Len(node.children) = 0 THEN [inline |-> TRUE, drops |-> 0]
    ELSE IF key \in cfg.formatting.always_multiline_fields
    THEN [inline |-> FALSE, drops |-> 0]
    ELSE IF \E i \in 1..Len(node.children) :
                /\ ~IsComment(node.children[i])
                /\ node.children[i].children[1].kind \in ContainerKinds
    THEN [inline |-> FALSE, drops |-> 0]
    ELSE LET tempStr == formatInlineObject(cfg, node)
         IN  [inline |-> Len(tempStr.s) <= cfg.formatting.simple_array_threshold,
              drops  |-> tempStr.drops]

\* faulty variant of shouldInlineObject: no always-multiline test
shouldInlineObjectNoMultiline(cfg, key, node) ==
    IF Len(node.children) = 0 THEN [inline |-> TRUE, drops |-> 0]
    ELSE IF \E i \in 1..Len(node.children) : IsComment(node.children[i])
    THEN [inline |-> FALSE, drops |-> 0]
    ELSE IF \E i \in 1..Len(node.children) :
                /\ ~IsComment(node.children[i])
                /\ node.children[i].children[1].kind \in ContainerKinds
    THEN [inline |-> FALSE, drops |-> 0]
    ELSE LET tempStr == formatInlineObject(cfg, node)
         IN  [inline |-> Len(tempStr.s) <= cfg.formatting.simple_array_threshold,
              drops  |-> tempStr.drops]

shouldInlineObject(cfg, key, node) ==
    IF Len(node.children) = 0 THEN [inline |-> TRUE, drops |-> 0]
    ELSE IF key \in cfg.formatting.always_multiline_fields
    THEN [inline |-> FALSE, drops |-> 0]
    ELSE IF \E i \in 1..Len(node.children) : IsComment(node.children[i])
    THEN [inline |-> FALSE, drops |-> 0]
    ELSE IF \E i \in 1..Len(node.children) :
                /\ ~IsComment(node.children[i])
                /\ node.children[i].children[1].kind \in ContainerKinds
    THEN [inline |-> FALSE, drops |-> 0]
    ELSE LET tempStr == formatInlineObject(cfg, node)
         IN  [inline |-> Len(tempStr.s) <= cfg.formatting.simple_array_threshold,
              drops  |-> tempStr.drops]

\* formatExpandedArray that hands its own level to its children
formatExpandedArraySameLevel(cfg, node, level) ==
    LET indent == Repeat(indentStr(cfg), level + 1)
        last   == lastValueIdx(node.children)
        kids   == [i \in 1..Len(node.children) |->
                      formatNode(cfg, node.children[i], level, "", FALSE)]
        lines  == [i \in 1..Len(kids) |->
                      IF IsComment(node.children[i]) THEN indent \o kids[i].s
                      ELSE indent \o kids[i].s \o (IF i # last THEN "," ELSE "")]
    IN  Rendered(Join(<<"[">> \o lines \o <<Repeat(indentStr(cfg), level) \o "]">>,
                      "\n"),
                 SumDrops(kids))

\* the expanded rendering of an array
formatExpandedArray(cfg, node, level) ==
    LET indent == Repeat(indentStr(cfg), level + 1)
        last   == lastValueIdx(node.children)
        kids   == [i \in 1..Len(node.children) |->
                      formatNode(cfg, node.children[i], level + 1, "", FALSE)]
        lines  == [i \in 1..Len(kids) |->
                      IF IsComment(node.children[i]) THEN indent \o kids[i].s
                      ELSE indent \o kids[i].s \o (IF i # last THEN "," ELSE "")]
    IN  Rendered(Join(<<"[">> \o lines \o <<Repeat(indentStr(cfg), level) \o "]">>,
                      "\n"),
                 SumDrops(kids))

\* the expanded rendering of an object
formatExpandedObject(cfg, node, level) ==
    LET indent == Repeat(indentStr(cfg), level + 1)
        last   == lastValueIdx(node.children)
        kids   == [i \in 1..Len(node.children) |->
                      IF IsComment(node.children[i])
                      THEN Rendered(node.children[i].raw, 0)
                      ELSE formatNode(cfg, node.children[i].children[1],
                                      level + 1, node.children[i].key, FALSE)]
        lines  == [i \in 1..Len(kids) |->
                      IF IsComment(node.children[i]) THEN indent \o kids[i].s
                      ELSE indent \o JsonStringifyString(node.children[i].key)
                           \o ": " \o kids[i].s
                           \o (IF i # last THEN "," ELSE "")]
    IN  Rendered(Join(<<"{">> \o lines \o <<Repeat(indentStr(cfg), level) \o "}">>,
                      "\n"),
                 SumDrops(kids))

formatNode(cfg, node, level, parentKey, inlineMode) ==
    CASE node.kind \in ValueKinds -> Rendered(JsonStringify(node), 0)
      [] node.kind = "Comment" ->
            IF inlineMode THEN Rendered("", 1) ELSE Rendered(node.raw, 0)
      [] node.kind = "Array" ->
            IF inlineMode THEN formatInlineArray(cfg, node)
            ELSE LET should == shouldInlineArray(cfg, parentKey, node)
                     r      == IF should.inline THEN formatInlineArray(cfg, node)
                               ELSE formatExpandedArray(cfg, node, level)
                 IN  Rendered(r.s, should.drops + r.drops)
      [] node.kind = "Object" ->
            IF inlineMode THEN formatInlineObject(cfg, node)
            ELSE LET should == shouldInlineObject(cfg, parentKey, node)
                     r      == IF should.inline THEN formatInlineObject(cfg, node)
                               ELSE formatExpandedObject(cfg, node, level)
                 IN  Rendered(r.s, should.drops + r.drops)
      [] OTHER -> Rendered("", 0)

\* String.prototype.trimEnd
trimEnd(s) ==
    SubSeq(s, 1, Max({j \in 1..Len(s) : At(s, j) \notin WhiteSpace} \cup {0}))

\* faulty variant of finalNewline: the newline is never appended
finalNewlineNeverAppended(cfg, formatted) ==
    IF ~cfg.posix.insert_final_newline /\ formatted # "" /\ EndsWith(formatted, "\n")
    THEN trimEnd(formatted) ELSE formatted

\* the final-newline step of format()
finalNewline(cfg, formatted) ==
    IF cfg.posix.insert_final_newline
    THEN IF formatted # "" /\ ~EndsWith(formatted, "\n")
         THEN formatted \o "\n" ELSE formatted
    ELSE IF formatted # "" /\ EndsWith(formatted, "\n")
         THEN trimEnd(formatted) ELSE formatted

\* formatted.replace(/\r?\n/g, newline), from index i on
\* a match of /\r?\n/ ends at the next "\n", j, and starts at the "\r" before
\* it if there is one
RECURSIVE replaceNewlines(_, _, _)

\* the same from i on, the next "\n" being at j
replacedFrom(s, i, j, newline) ==
    LET start == IF j > i /\ At(s, j - 1) = "\r" THEN j - 1 ELSE j
    IN  IF j > Len(s) THEN SubSeq(s, i, Len(s))
        ELSE SubSeq(s, i, start - 1) \o newline \o replaceNewlines(s, j + 1, newline)

replaceNewlines(s, i, newline) ==
    CHOOSE r \in {replacedFrom(s, i, j, newline) : j \in {FirstIn(s, i, {"\n"})}} :
        TRUE

newlineOf(cfg) == IF cfg.file_handling.newline = "CRLF" THEN "\r\n" ELSE "\n"

\* what format() does with the AST: formatNode, final newline, line endings
layoutOf(cfg, formatted) ==
    Rendered(CHOOSE r \in {replaceNewlines(s, 1, newlineOf(cfg)) :
                              s \in {finalNewline(cfg, formatted.s)}} : TRUE,
             formatted.drops)

layout(cfg, root) == layoutOf(cfg, formatNode(cfg, root, 0, "", FALSE))

\* The same layout, one call of formatNode at a time.  A call that has not
\* returned is
\*   path, level, key, inlineMode   the node it formats, as the indices that
\*                     lead to it from the root, and its other arguments
\*   phase   "enter"; "measure": shouldInline... is building tempStr;
\*           "inline", "expanded": the branch that builds what it returns
\*   next    which of the calls of its phase it makes next
\*   parts   what the calls of its phase returned
\*   drops   the comments discarded under it so far
FormatCall(path, level, key, inlineMode) ==
    [path |-> path, level |-> level, key |-> key, inlineMode |-> inlineMode,
     phase |-> "enter", next |-> 1, parts |-> <<>>, drops |-> 0]

\* child.value of a {key, value} child; the child itself in an array
ChildValue(c) == IF c.kind = "Pair" THEN c.children[1] ELSE c

RECURSIVE NodeAt(_, _)
NodeAt(n, path) ==
    IF path = <<>> THEN n
    ELSE CHOOSE at \in {NodeAt(child, rest) :
                            child \in {ChildValue(n.children[path[1]])},
                            rest \in {Tail(path)}} : TRUE

\* the children formatNode is called for: all of an array's, those of an
\* object that are not comments
CalledFor(node) ==
    SelectSeq([i \in 1..Len(node.children) |-> i],
              LAMBDA i : node.kind = "Array" \/ ~IsComment(node.children[i]))

\* the calls formatInlineArray and formatInlineObject make
InlineCalls(node, path) ==
    [j \in 1..Len(CalledFor(node)) |->
        FormatCall(Append(path, CalledFor(node)[j]), 0, "", TRUE)]

\* the calls the expanded branches of formatNode make
ExpandedCalls(node, path, level) ==
    [j \in 1..Len(CalledFor(node)) |->
        FormatCall(Append(path, CalledFor(node)[j]), level + 1,
                   node.children[CalledFor(node)[j]].key, FALSE)]

CallsOf(node, c) ==
    IF c.phase = "expanded" THEN ExpandedCalls(node, c.path, c.level)
    ELSE InlineCalls(node, c.path)

\* the tests of shouldInlineArray and shouldInlineObject that come before
\* tempStr, and where formatNode goes from them
PhaseEntered(cfg, node, c) ==
    IF c.inlineMode \/ Len(node.children) = 0 THEN "inline"
    ELSE IF node.kind = "Array"
    THEN IF \E i \in 1..Len(node.children) :
                node.children[i].kind \in {"Comment", "Object", "Array"}
         THEN "expanded"
         ELSE IF isCoordinateArray(cfg, c.key, node) THEN "inline"
         ELSE IF c.key \in cfg.formatting.control_flow_fields THEN "expanded"
         ELSE "measure"
    ELSE IF c.key \in cfg.formatting.always_multiline_fields THEN "expanded"
    ELSE IF \E i \in 1..Len(node.children) : IsComment(node.children[i])
    THEN "expanded"
    ELSE IF \E i \in 1..Len(node.children) :
                node.children[i].children[1].kind \in ContainerKinds
    THEN "expanded"
    ELSE "measure"

\* what formatInlineArray and formatInlineObject return, parts being what
\* their calls of formatNode returned
InlineText(node, parts) ==
    IF node.kind = "Array" THEN "[" \o Join(parts, ", ") \o "]"
    ELSE "{" \o Join([j \in 1..Len(parts) |->
                         JsonStringifyString(node.children[CalledFor(node)[j]].key)
                             \o ": " \o parts[j]], ", ") \o "}"

\* how many of the first i children formatNode is called for
Rank(node, i) ==
    Cardinality({k \in 1..i : node.kind = "Array" \/ ~IsComment(node.children[k])})

\* what the expanded branches of formatNode return
ExpandedText(cfg, node, level, parts) ==
    LET indent == Repeat(indentStr(cfg), level + 1)
        last   == lastValueIdx(node.children)
        lines  == [i \in 1..Len(node.children) |->
                      IF IsComment(node.children[i])
                      THEN indent \o node.children[i].raw
                      ELSE indent
                           \o (IF node.kind = "Object"
                               THEN JsonStringifyString(node.children[i].key) \o ": "
                               ELSE "")
                           \o parts[Rank(node, i)]
                           \o (IF i # last THEN "," ELSE "")]
    IN  Join(<<(IF node.kind = "Object" THEN "{" ELSE "[")>> \o lines
                 \o <<Repeat(indentStr(cfg), level)
                          \o (IF node.kind = "Object" THEN "}" ELSE "]")>>,
             "\n")

\* the comments formatInlineObject passes over
Skipped(node) == Len(node.children) - Len(CalledFor(node))

\* formatNode on a node that is no container
LeafText(node, c) ==
    IF node.kind \in ValueKinds THEN Rendered(JsonStringify(node), 0)
    ELSE IF node.kind = "Comment"
    THEN (IF c.inlineMode THEN Rendered("", 1) ELSE Rendered(node.raw, 0))
    ELSE Rendered("", 0)

\* the innermost call returns r to the one that made it
Delivered(cs, r) ==
    IF Len(cs) = 1 THEN <<>>
    ELSE [SubSeq(cs, 1, Len(cs) - 1) EXCEPT
             ![Len(cs) - 1].parts = Append(@, r.s),
             ![Len(cs) - 1].drops = @ + r.drops]

\* one step of the innermost call c, on node: [calls, returned, r], r being
\* what the outermost call returned when it has
FormatStep(cfg, node, cs, c) ==
    LET n    == Len(cs)
        went(next) == [calls |-> next, returned |-> FALSE, r |-> Rendered("", 0)]
        back(r)    == [calls |-> Delivered(cs, r), returned |-> n = 1, r |-> r]
    IN  IF node.kind \notin ContainerKinds THEN back(LeafText(node, c))
        ELSE IF c.phase = "enter"
        THEN went([cs EXCEPT ![n].phase = PhaseEntered(cfg, node, c)])
        ELSE IF c.next <= Len(CallsOf(node, c))
        THEN went(Append([cs EXCEPT ![n].next = @ + 1], CallsOf(node, c)[c.next]))
        ELSE IF c.phase = "measure"
        THEN went([cs EXCEPT
                 ![n].phase = IF Len(InlineText(node, c.parts))
                                     <= cfg.formatting.simple_array_threshold
                              THEN "inline" ELSE "expanded",
                 ![n].next = 1,
                 ![n].parts = <<>>,
                 ![n].drops = @ + Skipped(node)])
        ELSE IF c.phase = "inline"
        THEN back(Rendered(InlineText(node, c.parts), c.drops + Skipped(node)))
        ELSE back(Rendered(ExpandedText(cfg, node, c.level, c.parts), c.drops))

\* one call of format(text): the error it throws or the string it returns,
\* with the tokens and the tree it built and the comments it discarded
Run(e, toks, root, r) ==
    [err |-> e, tokens |-> toks, ast |-> root, out |-> r.s, drops |-> r.drops]

LayoutRun(cfg, toks, parsed) ==
    IF parsed.err # NoError
    THEN Run(parsed.err, toks, NoNode, Rendered("", 0))
    ELSE Run(NoError, toks, parsed.node, layout(cfg, parsed.node))

ParseRun(cfg, lexed) ==
    IF lexed.err # NoError
    THEN Run(lexed.err, <<>>, NoNode, Rendered("", 0))
    ELSE LayoutRun(cfg, lexed.tokens, parse(lexed.tokens))

formatRun(cfg, s) == ParseRun(cfg, tokenize(s))

\* MaaPipelineFormatter.format(text): [err, out]
format(cfg, s) ==
    [err |-> formatRun(cfg, s).err, out |-> formatRun(cfg, s).out]

-----------------------------------------------------------------------------
(* The extension: configuration files and doFormat.  A file is              *)
(*   exists  whether workspace.fs.stat finds it                            *)
(*   valid   whether JSON.parse accepts its text and gives an object       *)
(*   has     the <<section, key>> it gives (<<"version", "">> for version) *)
(*   val     the values it gives, at those places                          *)

File(exists, valid, has, val) ==
    [exists |-> exists, valid |-> valid, has |-> has, val |-> val]

Absent == File(FALSE, FALSE, {}, DEFAULT_CONFIG)
Unparseable == File(TRUE, FALSE, {}, DEFAULT_CONFIG)
ConfigFile(has, val) == File(TRUE, TRUE, has, val)

\* every <<section, key>> of a configuration
AllSettings ==
    {<<"version", "">>} \cup
    UNION {{<<s, k>> : k \in DOMAIN DEFAULT_CONFIG[s]} :
              s \in {"indent", "posix", "formatting", "file_handling"}}

\* JSON.stringify(DEFAULT_CONFIG, null, 4) written to a file
GeneratedFile == ConfigFile(AllSettings, DEFAULT_CONFIG)

ParseFailedMessage == "Failed to parse MAA config file. Using defaults."
CreatedMessage == "Created default configuration"
FormattingFailedMessage == "Formatting failed"
FormattedMessage == "MAA Pipeline formatted successfully!"

\* Object.assign(merged[section], userConfig[section])
Assigned(merged, file, section) ==
    [k \in DOMAIN merged[section] |->
        IF <<section, k>> \in file.has THEN file.val[section][k]
        ELSE merged[section][k]]

\* if (userConfig.version): a string counts as true unless it is empty
Truthy(v) == v # ""

\* JSON.parse(JSON.stringify(object)): a new object, equal field by field
DeepCopy(object) ==
    [version |-> object.version,
     indent |-> [k \in DOMAIN object.indent |-> object.indent[k]],
     posix |-> [k \in DOMAIN object.posix |-> object.posix[k]],
     formatting |-> [k \in DOMAIN object.formatting |-> object.formatting[k]],
     file_handling |-> [k \in DOMAIN object.file_handling |-> object.file_handling[k]]]

\* the five assignments of readConfig onto merged
Merged(merged, file) ==
    [version |-> IF <<"version", "">> \in file.has /\ Truthy(file.val.version)
                 THEN file.val.version ELSE merged.version,
     indent |-> Assigned(merged, file, "indent"),
     posix |-> Assigned(merged, file, "posix"),
     formatting |-> Assigned(merged, file, "formatting"),
     file_handling |-> Assigned(merged, file, "file_handling")]

\* readConfig(uri), DEFAULT_CONFIG being the object shared: what it returns,
\* what it shows, and the shared object after it
readConfigOf(shared, file) ==
    [config |-> IF file.valid THEN Merged(DeepCopy(shared), file)
                ELSE DeepCopy(shared),
     messages |-> IF file.valid THEN <<>> ELSE <<ParseFailedMessage>>,
     shared |-> shared]

\* what a configuration lookup gives: the configuration, the file system
\* after it, and the messages it showed
Loaded(cfg, f, shown) == [config |-> cfg, fs |-> f, messages |-> shown]

\* readConfig(uri)
readConfig(file, f) ==
    Loaded(readConfigOf(DEFAULT_CONFIG, file).config, f,
           readConfigOf(DEFAULT_CONFIG, file).messages)

\* loadOrGenerateConfiguration that looks into .vscode first
loadOrGenerateConfigurationVscodeFirst(f) ==
    IF ~f.workspace THEN Loaded(DEFAULT_CONFIG, f, <<>>)
    ELSE IF f.vscode.exists THEN readConfig(f.vscode, f)
    ELSE IF f.root.exists THEN readConfig(f.root, f)
    ELSE IF f.writable
    THEN Loaded(DEFAULT_CONFIG,
                [f EXCEPT !.vscodeDir = TRUE, !.vscode = GeneratedFile],
                <<CreatedMessage>>)
    ELSE Loaded(DEFAULT_CONFIG, f, <<>>)

\* loadOrGenerateConfiguration(document); f.writable says whether
\* createDirectory and writeFile succeed
loadOrGenerateConfiguration(f) ==
    IF ~f.workspace THEN Loaded(DEFAULT_CONFIG, f, <<>>)
    ELSE IF f.root.exists THEN readConfig(f.root, f)
    ELSE IF f.vscode.exists THEN readConfig(f.vscode, f)
    ELSE IF f.writable
    THEN Loaded(DEFAULT_CONFIG,
                [f EXCEPT !.vscodeDir = TRUE, !.vscode = GeneratedFile],
                <<CreatedMessage>>)
    ELSE Loaded(DEFAULT_CONFIG, f, <<>>)

\* no workspace folder: what format() alone runs in
NoWorkspace ==
    [workspace |-> FALSE, root |-> Absent, vscode |-> Absent,
     vscodeDir |-> FALSE, writable |-> TRUE]

\* text.trim().length === 0
Blank(s) == \A i \in 1..Len(s) : At(s, i) \in WhiteSpace

\* vscode.TextEdit.replace(new Range(positionAt(0), positionAt(text.length)), t)
Replace(from, to, newText) == [start |-> from, end |-> to, newText |-> newText]

\* doFormat's comparison that returns the edit in any case
editsForAlways(s, formattedText) == <<Replace(0, Len(s), formattedText)>>

\* if (formattedText !== text) return [replace(fullRange, formattedText)]; return []
editsFor(s, formattedText) ==
    IF formattedText # s THEN <<Replace(0, Len(s), formattedText)>> ELSE <<>>

\* a document after its edits are applied
RECURSIVE Applied(_, _)
Applied(s, es) ==
    IF Len(es) = 0 THEN s
    ELSE Applied(SubSeq(s, 1, es[1].start) \o es[1].newText
                    \o SubSeq(s, es[1].end + 1, Len(s)),
                 Tail(es))

-----------------------------------------------------------------------------
(* The documents and configurations that are formatted *)

\* at most this many children in a generated container
MaxItems == 2
\* a simple_array_threshold at which the generated containers differ
SmallThreshold == 6
\* an indent.width other than the default
WideIndent == 2

\* all sequences over S of length 0..n
RECURSIVE SeqsUpTo(_, _)
SeqsUpTo(S, n) ==
    IF n = 0 THEN {<<>>}
    ELSE SeqsUpTo(S, n - 1) \cup
         {Append(q, x) : q \in {r \in SeqsUpTo(S, n - 1) : Len(r) = n - 1}, x \in S}

RECURSIVE Concat(_)
Concat(parts) == IF Len(parts) = 0 THEN "" ELSE parts[1] \o Concat(Tail(parts))

Scalars == {"1", "20", "\"x\""}
Keys == {"\"roi\"", "\"next\"", "\"params\"", "\"a\""}

\* containers of up to MaxItems children; every child brings the comma after it
ArrayItems == {x \o "," : x \in Scalars \cup {"[1]"}} \cup {"/*b*/"}
Arrays == {"[" \o Concat(q) \o "]" : q \in SeqsUpTo(ArrayItems, MaxItems)}
ObjectItems == {"\"a\":1,", "\"b\":20,", "\"a\":[1],", "/*b*/"}
Objects == {"{" \o Concat(q) \o "}" : q \in SeqsUpTo(ObjectItems, MaxItems)}

\* a container at the root, and as the value of each key
LayoutDocuments ==
    (Arrays \cup Objects) \cup
    {"{" \o k \o ": " \o v \o "}" : k \in Keys, v \in Arrays \cup Objects}

\* "roi" is a coordinate field and a control-flow field at once
OverlappingFields ==
    [DEFAULT_CONFIG.formatting EXCEPT !.control_flow_fields = @ \cup {"roi"}]

LayoutConfigurations ==
    {[DEFAULT_CONFIG EXCEPT
        !.formatting = [f EXCEPT !.simple_array_threshold = th]] :
     th \in {0, SmallThreshold, SmallThreshold + 2, DefaultThreshold},
     f \in {DEFAULT_CONFIG.formatting, OverlappingFields}}

\* comments before the root, after it, and at every place inside it; block
\* comments that span lines, in the three line-ending spellings
Leads == {"", "// c\n", "/*b*/", "// c\n/*b*/"}
Tails == {"", "// t", "\n/*u*/ 2"}
CommentedItems == {"1,", "// c\r\n", "/*m\nn*/", "/*\r\r\n*/"}
CommentedArrays ==
    {"[" \o Concat(q) \o "]" : q \in SeqsUpTo(CommentedItems, MaxItems)}
CommentedObjects ==
    {"{\"a\"" \o kc \o ":" \o vc \o v \o more \o "}" :
        kc \in {"", "/*k*/"}, vc \in {"", "//v\n"}, v \in {"1", "[1 /*e*/]"},
        more \in {"", ",", "/*z*/", ",\"a\":2", ",\"b\"/*y*/:2"}}
CommentedDocuments ==
    {lead \o root \o tail :
        lead \in Leads, tail \in Tails,
        root \in {"", "1"} \cup CommentedArrays \cup CommentedObjects}

NewlineConfigurations ==
    {[DEFAULT_CONFIG EXCEPT
        !.posix.insert_final_newline = fin,
        !.file_handling.newline = nl,
        !.indent = ind] :
     fin \in BOOLEAN, nl \in {"LF", "CRLF"},
     ind \in {DEFAULT_CONFIG.indent, [style |-> "space", width |-> WideIndent]}}

\* at most this many tokens in a generated token sequence
MaxTokens == 3

\* texts the tokenizer stops in: a prefix it accepts (the characters that
\* stop it elsewhere stand inside strings and comments here), a character no
\* pattern matches at, and a rest
LexPrefixes ==
    {"", "[1,\n", "{\"+\": \"x@\",\n\n", "// x+@\n", "/* +\n@ */ ",
     "[\r\n \"a\\\"+\" \n", " \n\t\n"}
Unmatched == {"+", "x", "@", "\"", "/"}
LexSuffixes == {"", "1]", "\n+"}
UnlexableDocuments ==
    {pre \o bad \o post : pre \in LexPrefixes, bad \in Unmatched, post \in LexSuffixes}

\* numbers spelled with a leading zero or a leading plus sign
NonStandardNumbers ==
    {"01", "-012", "00", "[01]", "[1, 02.5]", "{\"a\": 007}", "+1", "[+1]"}

\* string tokens that JSON.parse rejects: an unknown escape, a raw tab
UndecodableStrings == {"\"\\q\"", "[1,\n\"\t\"]", "{\n\"\\q\": 1}"}

\* every sequence of up to MaxTokens tokens, one token per line
TokenTexts == {"{", "}", "[", "]", ":", "\"a\"", "1"}
TokenDocuments ==
    {Concat([i \in 1..Len(q) |-> q[i] \o "\n"]) : q \in SeqsUpTo(TokenTexts, MaxTokens)}

\* longer sequences: containers that end, or do not, after a member, inside
\* another container, and around comments
LongerDocuments ==
    {"{\n\"a\"\n:\n1\n", "{\n\"a\"\n:\n1\n}\n", "{\n\"a\"\n:\n1\n\"a\"\n",
     "{\n\"a\"\n:\n1\n]\n", "{\n\"a\"\n:\n[\n", "{\n\"a\"\n:\n[\n1\n]\n",
     "{\n\"a\"\n:\n{\n}\n", "{\n\"a\"\n:\n{\n\"a\"\n:\n1\n",
     "[\n[\n1\n]\n", "[\n1\n[\n1\n", "[\n1\n1\n]\n]\n", "[\n{\n\"a\"\n:\n1\n}\n",
     "/*c*/\n", "/*c*/\n{\n", "/*c*/\n[\n1\n", "/*c*/\n}\n", "{\n/*c*/\n", "[\n/*c*/\n",
     "{\n\"a\"\n/*c*/\n", "{\n\"a\"\n:\n/*c*/\n", "{\n\"a\"\n:\n1\n/*c*/\n",
     "[\n1\n/*c*/\n", "[\n/*c*/\n:\n", "{\n/*c*/\n1\n", "1\n/*c*/\n"}

MalformedDocuments ==
    UnlexableDocuments \cup NonStandardNumbers \cup UndecodableStrings
        \cup TokenDocuments \cup LongerDocuments

\* what is formatted: a document of a suite under a configuration of it
Suites ==
    {[documents |-> LayoutDocuments, configurations |-> LayoutConfigurations],
     [documents |-> CommentedDocuments, configurations |-> NewlineConfigurations],
     [documents |-> MalformedDocuments, configurations |-> {DEFAULT_CONFIG}]}

-----------------------------------------------------------------------------
(* formatWithExecutable and formatWithPython: a child process is spawned,   *)
(* the text written to its stdin, and a promise settled by the events that  *)
(* follow.  resolve and reject of a settled promise do nothing.             *)

Pending == [state |-> "pending", value |-> ""]
Resolved(v) == [state |-> "resolved", value |-> v]
Rejected(m) == [state |-> "rejected", value |-> m]
Settled(p, outcome) == IF p.state = "pending" THEN outcome ELSE p

\* String.prototype.trim
trim(s) == SubSeq(trimEnd(s), FirstNotIn(s, 1, WhiteSpace), Len(trimEnd(s)))

NotFoundMessage(backend) ==
    IF backend = "python" THEN "Python script not found"
    ELSE "Built-in executable not found"
NoStdinMessage(backend) ==
    IF backend = "python" THEN "Failed to access stdin of Python process"
    ELSE "Failed to access stdin of child process"
ExitMessage(backend, code) ==
    (IF backend = "python" THEN "Python script exited with code "
     ELSE "Formatter exited with code ") \o code
SpawnErrorMessage(backend) ==
    IF backend = "python" THEN "Failed to execute Python script"
    ELSE "Failed to execute formatter"
TimedOutMessage == "Formatter execution timed out"

\* no call yet.  child: "none", "running" or "closed"; code: the exit code
\* 'close' came with; timer: "none", "armed", "fired" or "cleared"; inner: the
\* promise of formatWithPython; promise: the one formatWithExecutable returns
NoCall ==
    [backend |-> "", child |-> "none", code |-> "", errored |-> FALSE,
     killed |-> FALSE, stdout |-> "", stderr |-> "", chunks |-> 0,
     timer |-> "none", inner |-> Pending, promise |-> Pending]

\* the promise whose resolve and reject the handlers of the child call
Own(x) == IF x.backend = "python" THEN "inner" ELSE "promise"

\* stdin.write(jsonText); stdin.end(), or the rejection when there is no stdin
Written(x, stdin) ==
    IF stdin THEN x
    ELSE [x EXCEPT ![Own(x)] = Settled(@, Rejected(NoStdinMessage(x.backend)))]

\* the executor of formatWithPython: spawn, the handlers, stdin; no timer
formatWithPython(stdin) ==
    Written([NoCall EXCEPT !.backend = "python", !.child = "running"], stdin)

\* the executor of formatWithExecutable
formatWithExecutable(useBuiltinExecutable, exists, stdin) ==
    IF useBuiltinExecutable
    THEN IF ~exists
         THEN [NoCall EXCEPT !.backend = "builtin",
                             !.promise = Rejected(NotFoundMessage("builtin"))]
         ELSE Written([NoCall EXCEPT !.backend = "builtin", !.child = "running",
                                     !.timer = "armed"], stdin)
    ELSE IF ~exists
         THEN [NoCall EXCEPT !.backend = "python",
                             !.promise = Rejected(NotFoundMessage("python"))]
         ELSE formatWithPython(stdin)

\* the two handlers of 'close'
Closed(x, code) ==
    [x EXCEPT !.child = "closed",
              !.code = code,
              ![Own(x)] =
                  Settled(@, IF code = "0" THEN Resolved(x.stdout)
                             ELSE Rejected(IF trim(x.stderr) # "" THEN trim(x.stderr)
                                           ELSE ExitMessage(x.backend, code))),
              !.timer = IF @ = "armed" THEN "cleared" ELSE @]

\* the handler of 'error'
Errored(x) ==
    [x EXCEPT !.errored = TRUE,
              ![Own(x)] = Settled(@, Rejected(SpawnErrorMessage(x.backend)))]

\* the callback of setTimeout
TimedOut(x) ==
    [x EXCEPT !.killed = TRUE,
              !.timer = "fired",
              !.promise = Settled(@, Rejected(TimedOutMessage))]

-----------------------------------------------------------------------------
(* format(), step by step, and a second call on what the first returned *)

Init ==
    /\ \E suite \in Suites :
          /\ text \in suite.documents
          /\ config \in suite.configurations
    /\ pc = "lex"
    /\ tokens = <<>>
    /\ ast = NoNode
    /\ drops = 0
    /\ out = ""
    /\ err = NoError
    /\ pass = 1
    /\ source = text
    /\ first = ""
    /\ fs = NoWorkspace
    /\ disk = fs
    /\ messages = <<>>
    /\ edits = <<>>
    /\ regexes = InitialRegexes
    /\ lexer = NewLexer
    /\ parser = NewParser
    /\ calls = <<>>
    /\ defaults = DEFAULT_CONFIG
    /\ external = NoCall

\* const tokens = lexer.tokenize()
Tokenize ==
    /\ pc = "lex"
    /\ \E lexed \in {tokenize(text)} :
          /\ tokens' = lexed.tokens
          /\ err' = lexed.err
          /\ pc' = IF lexed.err = NoError THEN "parse" ELSE "failed"
    /\ UNCHANGED <<text, config, ast, drops, out, pass, source, first, editor, regexes, steps, defaults, external>>

\* const ast = parser.parse()
Parse ==
    /\ pc = "parse"
    /\ \E parsed \in {parse(tokens)} :
          /\ ast' = parsed.node
          /\ err' = parsed.err
          /\ pc' = IF parsed.err = NoError THEN "layout" ELSE "failed"
    /\ UNCHANGED <<text, config, tokens, drops, out, pass, source, first, editor, regexes, steps, defaults, external>>

\* formatNode(ast, 0, ""), the final newline and the line endings; return
Layout ==
    /\ pc = "layout"
    /\ \E r \in {layout(config, ast)} :
          /\ out' = r.s
          /\ drops' = r.drops
    /\ pc' = "done"
    /\ UNCHANGED <<text, config, tokens, ast, err, pass, source, first, editor, regexes, steps, defaults, external>>

\* the caller hands the returned text to format() again, same configuration
Reformat ==
    /\ pc = "done"
    /\ pass = 1
    /\ \E r \in {formatRun(config, out)} :
          /\ tokens' = r.tokens
          /\ ast' = r.ast
          /\ err' = r.err
          /\ out' = r.out
          /\ drops' = r.drops
          /\ pc' = IF r.err = NoError THEN "done" ELSE "failed"
    /\ text' = out
    /\ first' = out
    /\ pass' = 2
    /\ UNCHANGED <<config, source, editor, regexes, steps, defaults, external>>

Next == Tokenize \/ Parse \/ Layout \/ Reformat

Spec == Init /\ [][Next]_vars

\* the same calls on the documents that parse: what the layout is checked on
\* containers of more children: values between, before and after comments,
\* containers of comments only, containers in containers
MixedDocuments ==
    {"[1,20,/*b*/[/*b*/]]", "[1,/*b*/20,// c\n]", "[/*b*/1,20,30]",
     "{\"a\":1,\"b\":2,/*b*/}", "{\"a\":1,// c\n\"b\":[2,/*b*/],\"c\":3}",
     "{/*b*/}", "{// c\n/*b*/}", "[[1,[2,/*b*/]],{\"a\":{\"b\":[/*b*/]}}]",
     "{\"a\":{\"b\":{\"c\":1,/*b*/}}}", "[[[1,// c\n]]]",
     "{\"roi\":[[1,2],[3,4]],\"next\":[[\"x\"],{\"roi\":[5,6]}]}",
     "[{\"a\":1},{\"next\":[1]},{\"params\":{}},[1,2],[/*b*/]]",
     "{\"roi\":[{\"a\":1},2],\"params\":[1,2],\"a\":{\"params\":{\"b\":1}}}",
     "[[]]", "{\"roi\":[[],{}],\"upper\":{\"lower\":{}}}"}

LayoutSuites ==
    {[documents |-> LayoutDocuments, configurations |-> LayoutConfigurations],
     [documents |-> CommentedDocuments, configurations |-> NewlineConfigurations],
     [documents |-> MixedDocuments,
      configurations |-> LayoutConfigurations \cup NewlineConfigurations]}

LayoutInit ==
    /\ \E suite \in LayoutSuites :
          /\ text \in suite.documents
          /\ config \in suite.configurations
    /\ pc = "lex"
    /\ tokens = <<>>
    /\ ast = NoNode
    /\ drops = 0
    /\ out = ""
    /\ err = NoError
    /\ pass = 1
    /\ source = text
    /\ first = ""
    /\ fs = NoWorkspace
    /\ disk = fs
    /\ messages = <<>>
    /\ edits = <<>>
    /\ regexes = InitialRegexes
    /\ lexer = NewLexer
    /\ parser = NewParser
    /\ calls = <<>>
    /\ defaults = DEFAULT_CONFIG
    /\ external = NoCall

LayoutSpec == LayoutInit /\ [][Next]_vars

\* at most this many commas in a row
MaxCommas == 2

\* documents without a comma, token by token
CommaBases ==
    {<<"[", "1", "\"a\"", "]">>,
     <<"[", "/*c*/", "1", "]">>,
     <<"{", "\"a\"", ":", "1", "}">>,
     <<"{", "\"a\"", "/*c*/", ":", "1", "}">>,
     <<"[", "[", "1", "]", "{", "}", "]">>,
     <<"{", "\"a\"", ":", "[", "1", "]", "}">>}

\* the tokens of base, each but the first behind a run of commas
WithCommas(base, runs) ==
    Concat([i \in 1..Len(base) |->
               (IF i > 1 THEN Repeat(",", runs[i]) ELSE "") \o base[i] \o " "])

CommaDocuments ==
    UNION {{WithCommas(base, runs) : runs \in [2..Len(base) -> 0..MaxCommas]} :
              base \in CommaBases}

CommaInit ==
    /\ text \in CommaDocuments
    /\ config = DEFAULT_CONFIG
    /\ pc = "lex"
    /\ tokens = <<>>
    /\ ast = NoNode
    /\ drops = 0
    /\ out = ""
    /\ err = NoError
    /\ pass = 1
    /\ source = text
    /\ first = ""
    /\ fs = NoWorkspace
    /\ disk = fs
    /\ messages = <<>>
    /\ edits = <<>>
    /\ regexes = InitialRegexes
    /\ lexer = NewLexer
    /\ parser = NewParser
    /\ calls = <<>>
    /\ defaults = DEFAULT_CONFIG
    /\ external = NoCall

CommaSpec == CommaInit /\ [][Next]_vars

\* texts of quotes, backslashes and other characters, up to this length
MaxChars == 4

StringCharacters == {"\"", "\\", "a", " ", "\n"}

StringDocuments ==
    {Concat(q) : q \in SeqsUpTo(StringCharacters, MaxChars) \ {<<>>}}

StringInit ==
    /\ text \in StringDocuments
    /\ config = DEFAULT_CONFIG
    /\ pc = "lex"
    /\ tokens = <<>>
    /\ ast = NoNode
    /\ drops = 0
    /\ out = ""
    /\ err = NoError
    /\ pass = 1
    /\ source = text
    /\ first = ""
    /\ fs = NoWorkspace
    /\ disk = fs
    /\ messages = <<>>
    /\ edits = <<>>
    /\ regexes = InitialRegexes
    /\ lexer = NewLexer
    /\ parser = NewParser
    /\ calls = <<>>
    /\ defaults = DEFAULT_CONFIG
    /\ external = NoCall

StringSpec == StringInit /\ [][Next]_vars

\* a root value, and after it up to this many further pieces of text
MaxTail == 2

RootValues ==
    {"[1]", "{\"a\": [2]}", "/*c*/ [[], {}]", "// d\n{}", "1", "\"s\"",
     "/*c*/ true", "[1, /*c*/]", "[1", "{\"a\" 1}"}

TailPieces == {" ]", " }", " ,", " 2", " /*c*/", " // d\n", " \"s\"", " [", " x"}

TailDocuments ==
    {root \o Concat(tail) : root \in RootValues,
                            tail \in SeqsUpTo(TailPieces, MaxTail)}

TailInit ==
    /\ text \in TailDocuments
    /\ config = DEFAULT_CONFIG
    /\ pc = "lex"
    /\ tokens = <<>>
    /\ ast = NoNode
    /\ drops = 0
    /\ out = ""
    /\ err = NoError
    /\ pass = 1
    /\ source = text
    /\ first = ""
    /\ fs = NoWorkspace
    /\ disk = fs
    /\ messages = <<>>
    /\ edits = <<>>
    /\ regexes = InitialRegexes
    /\ lexer = NewLexer
    /\ parser = NewParser
    /\ calls = <<>>
    /\ defaults = DEFAULT_CONFIG
    /\ external = NoCall

TailSpec == TailInit /\ [][Next]_vars

-----------------------------------------------------------------------------
(* format(), one loop iteration and one call of formatNode at a time *)

StepDocuments ==
    MixedDocuments \cup LongerDocuments \cup UndecodableStrings
        \cup NonStandardNumbers
        \cup {"", " ", "1", "// c\n", "[1, 2] x", "{\"a\": 1,, }", "[,]",
              "{\"roi\": [1, 2], \"next\": [\"x\"], \"params\": {\"a\": 1}}"}

StepConfigurations ==
    {DEFAULT_CONFIG,
     [DEFAULT_CONFIG EXCEPT !.formatting.simple_array_threshold = SmallThreshold,
                            !.posix.insert_final_newline = TRUE]}

StepInit ==
    /\ text \in StepDocuments
    /\ config \in StepConfigurations
    /\ pc = "lex"
    /\ tokens = <<>>
    /\ ast = NoNode
    /\ drops = 0
    /\ out = ""
    /\ err = NoError
    /\ pass = 1
    /\ source = text
    /\ first = ""
    /\ fs = NoWorkspace
    /\ disk = fs
    /\ messages = <<>>
    /\ edits = <<>>
    /\ regexes = InitialRegexes
    /\ lexer = NewLexer
    /\ parser = NewParser
    /\ calls = <<>>
    /\ defaults = DEFAULT_CONFIG
    /\ external = NoCall

\* one iteration of the while loop of tokenize(), or its return
TokenizeStep ==
    /\ pc = "lex"
    /\ IF lexer.pos > Len(text)
       THEN /\ tokens' = lexer.tokens
            /\ pc' = "parse"
            /\ UNCHANGED <<lexer, err>>
       ELSE \E m \in {NextMatch(text, lexer.pos)} :
               IF m.type = ""
               THEN /\ err' = Error("Unexpected character", lexer.line,
                                    At(text, lexer.pos))
                    /\ pc' = "failed"
                    /\ UNCHANGED <<lexer, tokens>>
               ELSE /\ lexer' = Advance(text, lexer, m)
                    /\ UNCHANGED <<pc, err, tokens>>
    /\ UNCHANGED <<text, config, ast, drops, out, pass, source, first, editor,
                   regexes, parser, calls,
                   defaults, external>>

\* one iteration of a loop of the parser; when parse() returns, format()
\* calls formatNode(ast, 0, "")
ParseStep ==
    /\ pc = "parse"
    /\ \E ps \in {ParserStep(tokens, parser)} :
          /\ parser' = ps
          /\ err' = ps.err
          /\ ast' = IF ps.returned THEN ps.node ELSE ast
          /\ calls' = IF ps.returned THEN <<FormatCall(<<>>, 0, "", FALSE)>>
                      ELSE calls
          /\ pc' = IF ps.err # NoError THEN "failed"
                   ELSE IF ps.returned THEN "layout" ELSE pc
    /\ UNCHANGED <<text, config, tokens, drops, out, pass, source, first, editor,
                   regexes, lexer, defaults, external>>

\* one step of the innermost call of formatNode; when the outermost
\* returns, format() finishes the text and returns it
FormatNodeStep ==
    /\ pc = "layout"
    /\ \E c \in {calls[Len(calls)]} :
       \E node \in {NodeAt(ast, c.path)} :
       \E step \in {FormatStep(config, node, calls, c)} :
          /\ calls' = step.calls
          /\ out' = IF step.returned THEN layoutOf(config, step.r).s ELSE out
          /\ drops' = IF step.returned THEN step.r.drops ELSE drops
          /\ pc' = IF step.returned THEN "done" ELSE pc
    /\ UNCHANGED <<text, config, tokens, ast, err, pass, source, first, editor,
                   regexes, lexer, parser,
                   defaults, external>>

StepNext == TokenizeStep \/ ParseStep \/ FormatNodeStep

StepSpec == StepInit /\ [][StepNext]_vars

\* format() is one synchronous call: the engine runs it until it returns or
\* throws, whatever else is pending
FairStepSpec == StepSpec /\ WF_vars(StepNext)

\* the same steps on containers in containers, under listed keys, under the
\* empty key and under none, with configurations that list the empty string
KeyDocuments ==
    {"[[1, 2], {\"a\": 1}, []]",
     "[1, 20]",
     "{\"a\": 1}",
     "{\"roi\": [[1, 2], [3, 4]], \"next\": [[\"x\"], {\"a\": 1}]}",
     "{\"next\": [[1, 20, 300]], \"params\": [{\"b\": 1}, {}]}",
     "{\"\": [1], \"a\": {\"\": {\"b\": 1}}}",
     "[[/*c*/ 1], [[2]], {\"roi\": [3]}]",
     "{\"params\": {\"params\": [{\"next\": [1]}]}}"}

KeyConfigurations ==
    {DEFAULT_CONFIG,
     [DEFAULT_CONFIG EXCEPT !.formatting.simple_array_threshold = SmallThreshold],
     [DEFAULT_CONFIG EXCEPT !.formatting.control_flow_fields = @ \cup {""}],
     [DEFAULT_CONFIG EXCEPT !.formatting.always_multiline_fields = @ \cup {""}],
     [DEFAULT_CONFIG EXCEPT !.formatting.simple_array_threshold = SmallThreshold,
                            !.formatting.coordinate_fields = @ \cup {""}]}

KeyInit ==
    /\ text \in KeyDocuments
    /\ config \in KeyConfigurations
    /\ pc = "lex"
    /\ tokens = <<>>
    /\ ast = NoNode
    /\ drops = 0
    /\ out = ""
    /\ err = NoError
    /\ pass = 1
    /\ source = text
    /\ first = ""
    /\ fs = NoWorkspace
    /\ disk = fs
    /\ messages = <<>>
    /\ edits = <<>>
    /\ regexes = InitialRegexes
    /\ lexer = NewLexer
    /\ parser = NewParser
    /\ calls = <<>>
    /\ defaults = DEFAULT_CONFIG
    /\ external = NoCall

KeySpec == KeyInit /\ [][StepNext]_vars

-----------------------------------------------------------------------------
(* doFormat(document) in the editor, and the command that applies its edits *)

EditorDocuments ==
    {"", " \n", "\t", "{}", "{}\n", "[1,2]", "[1, 2]", "[1, 2]\r\n",
     "{\"a\":1}", "{\n \"a\": 1\n}", "// c\n[1]", "[1, [2, 3], 4]",
     "{", "[1,", "+", "{\"a\" 1}"}

\* configuration files that change what format() returns
RootFiles ==
    {Absent, Unparseable,
     ConfigFile({<<"posix", "insert_final_newline">>},
                [DEFAULT_CONFIG EXCEPT !.posix.insert_final_newline = TRUE]),
     ConfigFile({<<"formatting", "simple_array_threshold">>},
                [DEFAULT_CONFIG EXCEPT !.formatting.simple_array_threshold = 0])}
VscodeFiles ==
    {Absent, Unparseable,
     ConfigFile({<<"file_handling", "newline">>, <<"posix", "insert_final_newline">>},
                [DEFAULT_CONFIG EXCEPT !.file_handling.newline = "CRLF",
                                       !.posix.insert_final_newline = TRUE]),
     ConfigFile({<<"indent", "style">>, <<"indent", "width">>, <<"version", "">>},
                [DEFAULT_CONFIG EXCEPT !.indent = [style |-> "space",
                                                   width |-> WideIndent]])}

\* a file in .vscode needs the directory
FileSystems ==
    {f \in [workspace : BOOLEAN, root : RootFiles, vscode : VscodeFiles,
            vscodeDir : BOOLEAN, writable : BOOLEAN] :
        f.vscode.exists => f.vscodeDir}

EditorInit ==
    /\ text \in EditorDocuments
    /\ fs \in FileSystems
    /\ disk = fs
    /\ config = DEFAULT_CONFIG
    /\ pc = "start"
    /\ tokens = <<>>
    /\ ast = NoNode
    /\ drops = 0
    /\ out = ""
    /\ err = NoError
    /\ pass = 1
    /\ source = text
    /\ first = ""
    /\ messages = <<>>
    /\ edits = <<>>
    /\ regexes = InitialRegexes
    /\ lexer = NewLexer
    /\ parser = NewParser
    /\ calls = <<>>
    /\ defaults = DEFAULT_CONFIG
    /\ external = NoCall

\* const text = document.getText(); if (text.trim().length === 0) return []
Begin ==
    /\ pc = "start"
    /\ pc' = IF Blank(text) THEN "returned" ELSE "load"
    /\ UNCHANGED <<text, config, tokens, ast, drops, out, err, pass, source,
                   first, editor, regexes, steps, defaults, external>>

\* const config = await loadOrGenerateConfiguration(document)
LoadOrGenerateConfiguration ==
    /\ pc = "load"
    /\ \E loaded \in {loadOrGenerateConfiguration(fs)} :
          /\ config' = loaded.config
          /\ fs' = loaded.fs
          /\ messages' = messages \o loaded.messages
    /\ pc' = "lex"
    /\ UNCHANGED <<text, tokens, ast, drops, out, err, pass, source, first,
                   disk, edits, regexes, steps, defaults, external>>

\* format() returned: the edit, or none
Return ==
    /\ pc = "done"
    /\ edits' = editsFor(text, out)
    /\ pc' = "returned"
    /\ UNCHANGED <<text, config, tokens, ast, drops, out, err, pass, source,
                   first, fs, disk, messages, regexes, steps, defaults, external>>

\* format() threw: catch (error), showErrorMessage, return []
Catch ==
    /\ pc = "failed"
    /\ messages' = Append(messages, FormattingFailedMessage)
    /\ edits' = <<>>
    /\ pc' = "returned"
    /\ UNCHANGED <<text, config, tokens, ast, drops, out, err, pass, source,
                   first, fs, disk, regexes, steps, defaults, external>>

\* the command: if (edits && edits.length > 0) applyEdit, showInformationMessage
ApplyEdits ==
    /\ pc = "returned"
    /\ text' = Applied(text, edits)
    /\ messages' = IF Len(edits) > 0 THEN Append(messages, FormattedMessage)
                   ELSE messages
    /\ pc' = "applied"
    /\ UNCHANGED <<config, tokens, ast, drops, out, err, pass, source, first,
                   fs, disk, edits, regexes, steps, defaults, external>>

EditorNext ==
    Begin \/ LoadOrGenerateConfiguration \/ Tokenize \/ Parse \/ Layout
        \/ Return \/ Catch \/ ApplyEdits

EditorSpec == EditorInit /\ [][EditorNext]_vars

-----------------------------------------------------------------------------
(* readConfig on files that set some fields, and format() with what it gave *)

\* at most this many fields set in a generated configuration file
MaxSettings == 2

\* a configuration that differs from the default one in every field
OtherConfig ==
    [version |-> "2.0",
     indent |-> [style |-> "space", width |-> WideIndent],
     posix |-> [insert_final_newline |-> TRUE],
     formatting |->
        [simple_array_threshold |-> SmallThreshold,
         coordinate_fields |-> {"box"},
         control_flow_fields |-> {"then"},
         always_multiline_fields |-> {"extra"}],
     file_handling |->
        [preserve_comments |-> FALSE, output_suffix |-> "_fmt",
         encoding |-> "latin1", newline |-> "CRLF"]]

\* files that set up to MaxSettings fields, "version": "" among them; a
\* file that is no JSON; a file that cannot be read
UserFiles ==
    {ConfigFile(has, val) :
        has \in {h \in SUBSET AllSettings : Cardinality(h) <= MaxSettings},
        val \in {OtherConfig, [OtherConfig EXCEPT !.version = ""]}}
    \cup {Unparseable, Absent}

ConfigDocuments == {"[1, 2]", "{\"box\": [1, 2], \"then\": [3], \"extra\": {}}", "{"}

ConfigInit ==
    /\ text \in ConfigDocuments
    /\ \E file \in UserFiles :
          fs = [workspace |-> TRUE, root |-> file, vscode |-> Absent,
                vscodeDir |-> FALSE, writable |-> TRUE]
    /\ disk = fs
    /\ config = DEFAULT_CONFIG
    /\ pc = "load"
    /\ tokens = <<>>
    /\ ast = NoNode
    /\ drops = 0
    /\ out = ""
    /\ err = NoError
    /\ pass = 1
    /\ source = text
    /\ first = ""
    /\ messages = <<>>
    /\ edits = <<>>
    /\ regexes = InitialRegexes
    /\ lexer = NewLexer
    /\ parser = NewParser
    /\ calls = <<>>
    /\ defaults = DEFAULT_CONFIG
    /\ external = NoCall

\* return await readConfig(rootConfigUri); new MaaPipelineFormatter(config)
ReadConfig ==
    /\ pc = "load"
    /\ \E read \in {readConfigOf(defaults, fs.root)} :
          /\ config' = read.config
          /\ messages' = messages \o read.messages
          /\ defaults' = read.shared
    /\ pc' = "lex"
    /\ UNCHANGED <<text, tokens, ast, drops, out, err, pass, source, first,
                   fs, disk, edits, regexes, steps, external>>

\* the document is formatted again
FormatAgain ==
    /\ pc \in {"done", "failed"}
    /\ pass = 1
    /\ pass' = 2
    /\ pc' = "load"
    /\ tokens' = <<>>
    /\ ast' = NoNode
    /\ drops' = 0
    /\ out' = ""
    /\ err' = NoError
    /\ first' = out
    /\ UNCHANGED <<text, config, source, editor, regexes, steps, defaults, external>>

ConfigNext == ReadConfig \/ Tokenize \/ Parse \/ Layout \/ FormatAgain

ConfigSpec == ConfigInit /\ [][ConfigNext]_vars

-----------------------------------------------------------------------------
(* Calls of format() one after another, on the regexes they share *)

SharedDocuments ==
    {"1", "[1]", "[1, 2]", "{}", "{\"a\": 1}", "// c\n[1]", "/*b*/ 1", "true",
     "[null, false]", " \n1", "[1,\n\"x\"]", "{\"a\": [1, 2]} // t",
     "", "+", "[1 +", "[", "{\"a\" 1}", "\"x"}
SharedConfigurations ==
    {DEFAULT_CONFIG,
     [DEFAULT_CONFIG EXCEPT !.posix.insert_final_newline = TRUE],
     [DEFAULT_CONFIG EXCEPT !.file_handling.newline = "CRLF",
                            !.formatting.simple_array_threshold = 0]}

SharedInit ==
    /\ text = ""
    /\ config = DEFAULT_CONFIG
    /\ pc = "idle"
    /\ tokens = <<>>
    /\ ast = NoNode
    /\ drops = 0
    /\ out = ""
    /\ err = NoError
    /\ pass = 1
    /\ source = text
    /\ first = ""
    /\ fs = NoWorkspace
    /\ disk = fs
    /\ messages = <<>>
    /\ edits = <<>>
    /\ regexes = InitialRegexes
    /\ lexer = NewLexer
    /\ parser = NewParser
    /\ calls = <<>>
    /\ defaults = DEFAULT_CONFIG
    /\ external = NoCall

\* new MaaPipelineFormatter(config).format(text), once the call before it
\* has returned or thrown
Call ==
    /\ pc \in {"idle", "done", "failed"}
    /\ text' \in SharedDocuments
    /\ config' \in SharedConfigurations
    /\ source' = text'
    /\ tokens' = <<>>
    /\ ast' = NoNode
    /\ drops' = 0
    /\ out' = ""
    /\ err' = NoError
    /\ pc' = "lex"
    /\ UNCHANGED <<pass, first, editor, regexes, steps, defaults, external>>

\* const tokens = lexer.tokenize(), with the regexes as the calls before
\* left them
TokenizeShared ==
    /\ pc = "lex"
    /\ \E lexed \in {tokenizeShared(text, regexes)} :
          /\ tokens' = lexed.tokens
          /\ err' = lexed.err
          /\ regexes' = lexed.regexes
          /\ pc' = IF lexed.err = NoError THEN "parse" ELSE "failed"
    /\ UNCHANGED <<text, config, ast, drops, out, pass, source, first, editor,
                   steps, defaults, external>>

SharedNext == Call \/ TokenizeShared \/ Parse \/ Layout

SharedSpec == SharedInit /\ [][SharedNext]_vars

-----------------------------------------------------------------------------
(* One call of formatWithExecutable and the events of its child process *)

\* data events while the child runs, at most
MaxChunks == 2

Chunks == {"[]", " ", "bad\n"}
ExitCodes == {"0", "1", "null"}

ExternalInit ==
    /\ text \in {"{}", "[1]"}
    /\ config = DEFAULT_CONFIG
    /\ pc = "call"
    /\ tokens = <<>>
    /\ ast = NoNode
    /\ drops = 0
    /\ out = ""
    /\ err = NoError
    /\ pass = 1
    /\ source = text
    /\ first = ""
    /\ fs = NoWorkspace
    /\ disk = fs
    /\ messages = <<>>
    /\ edits = <<>>
    /\ regexes = InitialRegexes
    /\ lexer = NewLexer
    /\ parser = NewParser
    /\ calls = <<>>
    /\ defaults = DEFAULT_CONFIG
    /\ external = NoCall

others == <<text, config, tokens, ast, drops, out, err, pass, source, first,
            editor, regexes, steps, defaults>>

\* formatWithExecutable(jsonText, context): the executor runs to its end
FormatWithExecutable ==
    /\ pc = "call"
    /\ \E useBuiltinExecutable \in BOOLEAN, exists \in BOOLEAN, stdin \in BOOLEAN :
          external' = formatWithExecutable(useBuiltinExecutable, exists, stdin)
    /\ pc' = "await"
    /\ UNCHANGED others

\* the child writes to stdout or to stderr
Data ==
    /\ external.child = "running"
    /\ external.chunks < MaxChunks
    /\ \E stream \in {"stdout", "stderr"}, data \in Chunks :
          external' = [external EXCEPT ![stream] = @ \o data, !.chunks = @ + 1]
    /\ UNCHANGED <<pc, others>>

\* the child has ended and its streams are closed
Close ==
    /\ external.child = "running"
    /\ \E code \in ExitCodes : external' = Closed(external, code)
    /\ UNCHANGED <<pc, others>>

\* the child could not be spawned, or not be killed
ChildError ==
    /\ external.child = "running"
    /\ ~external.errored
    /\ external' = Errored(external)
    /\ UNCHANGED <<pc, others>>

\* 30000 ms have passed and the timer was not cleared
Timeout ==
    /\ external.timer = "armed"
    /\ external' = TimedOut(external)
    /\ UNCHANGED <<pc, others>>

\* formatWithPython(...).then(resolve).catch(reject)
Forward ==
    /\ external.backend = "python"
    /\ external.inner.state # "pending"
    /\ external.promise.state = "pending"
    /\ external' = [external EXCEPT !.promise = external.inner]
    /\ UNCHANGED <<pc, others>>

ExternalNext ==
    FormatWithExecutable \/ Data \/ Close \/ ChildError \/ Timeout \/ Forward

ExternalSpec == ExternalInit /\ [][ExternalNext]_vars

\* the event loop runs the executor, a due timer and the reactions of a
\* settled promise; nothing makes the child write, end or fail
FairExternalSpec ==
    ExternalSpec /\ WF_vars(FormatWithExecutable) /\ WF_vars(Timeout)
        /\ WF_vars(Forward)

-----------------------------------------------------------------------------
(* What the properties are stated with *)

Contains(s, sub) == \E i \in 1..(Len(s) - Len(sub) + 1) : StartsWithAt(s, i, sub)

RECURSIVE Flatten(_)
Flatten(seqs) == IF Len(seqs) = 0 THEN <<>> ELSE seqs[1] \o Flatten(Tail(seqs))

\* every node of the tree under n, n included, parents before children
RECURSIVE NodesOf(_)
NodesOf(n) ==
    <<n>> \o Flatten([i \in 1..Len(n.children) |-> NodesOf(n.children[i])])

PairsOf(n) == SelectSeq(NodesOf(n), LAMBDA m : m.kind = "Pair")
CommentsOf(n) == SelectSeq(NodesOf(n), LAMBDA m : m.kind = "Comment")

\* the multiset of the elements of a sequence
BagOf(q) ==
    [x \in {q[i] : i \in 1..Len(q)} |-> Cardinality({i \in 1..Len(q) : q[i] = x})]

\* the texts of the comment tokens of a text
CommentTexts(s) ==
    LET toks == SelectSeq(tokenize(s).tokens, LAMBDA k : k.type = "COMMENT")
    IN  [i \in 1..Len(toks) |-> toks[i].value]

\* the keys of an object, in the order of its children
KeysOfObject(n) ==
    LET pairs == SelectSeq(n.children, LAMBDA m : m.kind = "Pair")
    IN  [i \in 1..Len(pairs) |-> pairs[i].key]

\* the key sequences of the objects of a tree, parents before children
ObjectKeys(n) ==
    LET objs == SelectSeq(NodesOf(n), LAMBDA m : m.kind = "Object")
    IN  [i \in 1..Len(objs) |-> KeysOfObject(objs[i])]

\* the first call of format() has returned
Formatted == pc = "done" /\ pass = 1

\* the containers of the tree under n, each with the key formatNode is given
\* for it: the key of the pair it is the value of, "" for the root and for
\* the elements of an array
RECURSIVE KeyedContainers(_, _)
KeyedContainers(n, key) ==
    CASE n.kind = "Array" ->
            <<[key |-> key, node |-> n]>> \o
            Flatten([i \in 1..Len(n.children) |-> KeyedContainers(n.children[i], "")])
      [] n.kind = "Object" ->
            <<[key |-> key, node |-> n]>> \o
            Flatten([i \in 1..Len(n.children) |->
                        IF n.children[i].kind = "Pair"
                        THEN KeyedContainers(n.children[i].children[1],
                                             n.children[i].key)
                        ELSE <<>>])
      [] OTHER -> <<>>

\* the values of a container: the elements of an array, the values of the
\* pairs of an object (a comment child stays a comment)
ValuesOf(n) ==
    [i \in 1..Len(n.children) |->
        IF n.children[i].kind = "Pair" THEN n.children[i].children[1]
        ELSE n.children[i]]

AllNumbers(n) == \A i \in 1..Len(n.children) : n.children[i].kind = "Number"
AllScalars(n) == \A i \in 1..Len(n.children) : ValuesOf(n)[i].kind \in ValueKinds

\* the one-line form of a container of scalars: brackets, ", " between the
\* children, and "key: value" for the members of an object
InlineRendering(n) ==
    LET parts == [i \in 1..Len(n.children) |->
                     (IF n.kind = "Object"
                      THEN JsonStringifyString(n.children[i].key) \o ": " ELSE "")
                     \o JsonStringify(ValuesOf(n)[i])]
    IN  IF n.kind = "Object" THEN "{" \o Join(parts, ", ") \o "}"
        ELSE "[" \o Join(parts, ", ") \o "]"

\* the text "key": that precedes the value of a key in the output
KeyPrefix(key) == JsonStringifyString(key) \o ": "

FieldSets(cfg) ==
    cfg.formatting.coordinate_fields \cup cfg.formatting.control_flow_fields
        \cup cfg.formatting.always_multiline_fields

\* s without the line terminators at its end
StripTerminators(s) ==
    SubSeq(s, 1, Max({j \in 1..Len(s) : At(s, j) \notin LineTerminators} \cup {0}))

-----------------------------------------------------------------------------
(* Properties *)

\* C1: the multiset of comment texts of the output equals the multiset of
\* comment tokens of the input, wherever the comments stand.
CommentConservation ==
    Formatted => BagOf(CommentTexts(out)) = BagOf(CommentTexts(source))

\* C1 witness: a line comment before a root number is not in the output.
CommentLossWitness ==
    /\ Formatted
    /\ source = "// c\n1"
    /\ out = "1\n"

\* C2: formatting the output again succeeds and gives the same text.
RoundTripIdempotence ==
    (pass = 2 /\ pc \in {"done", "failed"}) => (err = NoError /\ out = first)

\* C2 witness: a block comment holding "\r\r\n", formatted twice with LF,
\* came out differently the second time.
SecondPassWitness ==
    /\ pass = 2
    /\ pc = "done"
    /\ config.file_handling.newline = "LF"
    /\ source = "[/*\r\r\n*/]"
    /\ out # first

\* C3: every object of the parsed document has, in the output, the keys it has
\* in the input, in the same order and with the same multiplicity.
KeyOrderConservation ==
    Formatted => ObjectKeys(parse(tokenize(out).tokens).node) = ObjectKeys(ast)

\* C3 witness: an object with a duplicated key was rendered on one line.
KeyOrderWitness ==
    /\ Formatted
    /\ source = "{\"b\":20,\"b\":20,}"
    /\ out = "{\"b\": 20, \"b\": 20}"

\* C4: no rendering of a parser-built tree takes a branch that discards a
\* comment.
InliningNeverDropsComment == pc = "done" => drops = 0

\* C4 witness: a tree with a comment of which a container was rendered inline.
InliningWitness ==
    /\ Formatted
    /\ Len(CommentsOf(ast)) > 0
    /\ Contains(out, "\"a\": [1]")

\* C5: a purely numeric array under a coordinate field is rendered on one
\* line, whatever the threshold and whatever the control-flow fields.
CoordinateInlining ==
    Formatted =>
        \A i \in 1..Len(KeyedContainers(ast, "")) :
            LET c == KeyedContainers(ast, "")[i] IN
            (/\ c.key \in config.formatting.coordinate_fields
             /\ c.node.kind = "Array"
             /\ AllNumbers(c.node))
            => Contains(out, KeyPrefix(c.key) \o InlineRendering(c.node))

\* C5 witness: threshold 0, "roi" also a control-flow field, two numbers.
CoordinateWitness ==
    /\ Formatted
    /\ config.formatting.simple_array_threshold = 0
    /\ "roi" \in config.formatting.control_flow_fields
    /\ source = "{\"roi\": [1,20,]}"
    /\ out = "{\n\t\"roi\": [1, 20]\n}"

AlwaysMultilineObjects ==
    Formatted =>
        \A i \in 1..Len(KeyedContainers(ast, "")) :
            LET c == KeyedContainers(ast, "")[i] IN
            (/\ c.key \in config.formatting.always_multiline_fields
             /\ c.node.kind = "Object")
            => IF Len(c.node.children) = 0
               THEN Contains(out, KeyPrefix(c.key) \o "{}")
               ELSE /\ Contains(out, KeyPrefix(c.key) \o "{" \o newlineOf(config))
                    /\ ~Contains(out, KeyPrefix(c.key) \o "{\"")

\* C7 witness: an object of one scalar member under "params".
AlwaysMultilineWitness ==
    /\ Formatted
    /\ config.formatting.simple_array_threshold = DefaultThreshold
    /\ source = "{\"params\": {\"a\":1,}}"
    /\ out = "{\n\t\"params\": {\n\t\t\"a\": 1\n\t}\n}"

\* the containers C8 is about: non-empty, of scalars only, under no listed key
Plain(c) ==
    /\ c.key \notin FieldSets(config)
    /\ Len(c.node.children) > 0
    /\ AllScalars(c.node)

OutputWithFinalNewline(fin) ==
    IF config.posix.insert_final_newline = fin THEN out
    ELSE format([config EXCEPT !.posix.insert_final_newline = fin], source).out

\* C9: with insert_final_newline the output ends with exactly one line
\* terminator, without it with none, and the two differ in nothing else.
FinalNewlinePolicy ==
    Formatted =>
        /\ OutputWithFinalNewline(TRUE) =
              StripTerminators(OutputWithFinalNewline(TRUE)) \o newlineOf(config)
        /\ OutputWithFinalNewline(FALSE) =
              StripTerminators(OutputWithFinalNewline(FALSE))
        /\ StripTerminators(OutputWithFinalNewline(TRUE)) =
              StripTerminators(OutputWithFinalNewline(FALSE))

\* C9 witness: a final newline was added, as CRLF.
FinalNewlineWitness ==
    /\ Formatted
    /\ config.posix.insert_final_newline
    /\ config.file_handling.newline = "CRLF"
    /\ EndsWith(out, "}\r\n")

\* C10: with CRLF every "\n" of the output follows a "\r"; with LF the output
\* has no "\r\n".
LineEndingNormalization ==
    Formatted =>
        IF config.file_handling.newline = "CRLF"
        THEN \A i \in 1..Len(out) :
                At(out, i) = "\n" => (i > 1 /\ At(out, i - 1) = "\r")
        ELSE ~Contains(out, "\r\n")

\* C10 witness: with LF, the "\r\r\n" of a block comment left a "\r\n".
CarriageReturnWitness ==
    /\ Formatted
    /\ config.file_handling.newline = "LF"
    /\ source = "[/*\r\r\n*/]"
    /\ Contains(out, "/*\r\n*/")

-----------------------------------------------------------------------------
(* Failures of the tokenizer and of the parser *)

\* C11: where no pattern matches, tokenize fails with an error that names
\* the character and the line, 1 plus the number of "\n" before it, and gives
\* no tokens; nothing is formatted.
LexFailure ==
    \A pre \in LexPrefixes, bad \in Unmatched, post \in LexSuffixes :
        (source = pre \o bad \o post /\ pc # "lex")
        => /\ pc = "failed"
           /\ err = Error("Unexpected character", 1 + CountNewlines(pre), bad)
           /\ tokens = <<>>
           /\ ast = NoNode
           /\ out = ""

\* C11 witness: a "+" on line 3, after a string that holds a "+".
LexFailureWitness ==
    /\ pc = "failed"
    /\ source = "[\r\n \"a\\\"+\" \n+"
    /\ err = Error("Unexpected character", 3, "+")

\* C12: a document with a number spelled with a leading zero or a leading
\* plus sign is not formatted: format fails.
StrictNumericLiterals ==
    source \in NonStandardNumbers => pc \notin {"layout", "done"}

\* C12 witness: 01 in an array came out as the two numbers 0 and 1.
LeadingZeroWitness ==
    /\ Formatted
    /\ source = "[01]"
    /\ out = "[0, 1]"

\* the tokens the parser is given: those of the first call's text while
\* pass = 1, none if the tokenizer failed
SourceTokens == tokens

\* index of the first token that is not a comment (Len + 1 if there is none)
FirstValueToken(toks) == CommentRunEnd(toks, 1)

Opening == {"LBRACE", "LBRACKET"}
Closing == {"RBRACE", "RBRACKET"}

\* opening minus closing brackets among toks[from..k]
DepthAfter(toks, from, k) ==
    Cardinality({j \in from..k : toks[j].type \in Opening})
        - Cardinality({j \in from..k : toks[j].type \in Closing})

\* the root value opens a container and the tokens end before it is closed
StillOpen(toks) ==
    LET from == FirstValueToken(toks)
    IN  /\ from <= Len(toks)
        /\ toks[from].type \in Opening
        /\ \A k \in from..Len(toks) : DepthAfter(toks, from, k) > 0

\* the opening brackets that are not closed at the end of toks, outermost first
RECURSIVE OpenStack(_, _, _)
OpenStack(toks, k, stack) ==
    IF k > Len(toks) THEN stack
    ELSE IF toks[k].type \in Opening
    THEN OpenStack(toks, k + 1, Append(stack, toks[k].type))
    ELSE IF toks[k].type \in Closing /\ Len(stack) > 0
    THEN OpenStack(toks, k + 1, SubSeq(stack, 1, Len(stack) - 1))
    ELSE OpenStack(toks, k + 1, stack)

\* the closing brackets for a stack of opening ones, innermost first
Closers(stack) ==
    [i \in 1..Len(stack) |->
        IF stack[Len(stack) + 1 - i] = "LBRACE"
        THEN Token("RBRACE", "}", 0) ELSE Token("RBRACKET", "]", 0)]

\* toks end where a child or the closing bracket of the innermost open
\* container may follow: closing what is open gives a document that parses,
\* all of it
EndsBetweenChildren(toks) ==
    /\ StillOpen(toks)
    /\ \E closed \in {toks \o Closers(OpenStack(toks, 1, <<>>))} :
       \E parsed \in {parse(closed)} :
          /\ parsed.err = NoError
          /\ parsed.pos = Len(closed) + 1

UnclosedMessage(bracket) ==
    IF bracket = "LBRACE" THEN "Unclosed object" ELSE "Unclosed array"

\* C13: when the tokens end while a container is open, parse fails and gives
\* no tree; when they end where a child or the closing bracket is expected,
\* the error names the innermost open container, object or array.
UnclosedContainer ==
    (pass = 1 /\ pc \in {"layout", "done", "failed"}) =>
        /\ StillOpen(SourceTokens)
              => (pc = "failed" /\ err # NoError /\ ast = NoNode /\ out = "")
        /\ EndsBetweenChildren(SourceTokens)
              => \E stack \in {OpenStack(SourceTokens, 1, <<>>)} :
                    err.msg = UnclosedMessage(stack[Len(stack)])

\* C13 witness: {"a": 1 and nothing more.
UnclosedObjectWitness ==
    /\ pc = "failed"
    /\ source = "{\n\"a\"\n:\n1\n"
    /\ EndsBetweenChildren(SourceTokens)
    /\ err.msg = "Unclosed object"

\* C14: every error of a format call carries a line number.
EveryErrorHasLine == pc = "failed" => err.line >= 1

\* C14 witness: the error for the 1 on line 2, where a key is expected, names
\* the token and no line.
ErrorWithoutLineWitness ==
    /\ pc = "failed"
    /\ source = "{\n1\n"
    /\ err = Error("Expected string key or comment in object", NoLine, "1")

-----------------------------------------------------------------------------
(* The tree the parser builds *)

\* the tree of the first call has been built
Parsed == pass = 1 /\ pc \in {"layout", "done"}

\* C16: the comments before the first other token are the first children of
\* the root container, in source order and before the container's own
\* children; a document of comments only (or of no token) gives an Object
\* whose children are those comments.
RootRule ==
    Parsed =>
        \E toks \in {SourceTokens} :
        LET from == FirstValueToken(toks)
            lead == [i \in 1..(from - 1) |-> JsonComment(toks[i].value)]
        IN  IF from > Len(toks) THEN ast = JsonObject(lead)
            ELSE toks[from].type \in Opening =>
                    /\ ast.kind = IF toks[from].type = "LBRACE"
                                  THEN "Object" ELSE "Array"
                    /\ Len(ast.children) >= Len(lead)
                    /\ \A i \in 1..Len(lead) :
                          /\ ast.children[i].kind = "Comment"
                          /\ ast.children[i].raw = toks[i].value
                    /\ SubSeq(ast.children, Len(lead) + 1, Len(ast.children))
                          = parseValue(toks, from).node.children

\* C16 witness: two comments before an array of one number.
RootRuleWitness ==
    /\ Parsed
    /\ source = "// c\n/*b*/[1,]"
    /\ ast.kind = "Array"
    /\ [i \in 1..Len(ast.children) |-> ast.children[i].raw] = <<"// c", "/*b*/", "1">>

\* C19: an array of scalars under a control-flow field whose one-line form is
\* within simple_array_threshold is rendered on one line.
ShortControlFlowsInline ==
    Formatted =>
        \A i \in 1..Len(KeyedContainers(ast, "")) :
            LET c == KeyedContainers(ast, "")[i] IN
            (/\ c.key \in config.formatting.control_flow_fields
             /\ c.node.kind = "Array"
             /\ AllScalars(c.node)
             /\ Len(InlineRendering(c.node))
                    <= config.formatting.simple_array_threshold)
            => Contains(out, KeyPrefix(c.key) \o InlineRendering(c.node))

\* C19 witness: two numbers under "next", threshold 50, one per line.
ShortControlFlowWitness ==
    /\ Formatted
    /\ config.formatting.simple_array_threshold = DefaultThreshold
    /\ source = "{\"next\": [1,20,]}"
    /\ out = "{\n\t\"next\": [\n\t\t1,\n\t\t20\n\t]\n}"

\* index of the first token of this type and value (Len + 1 if there is none)
TokenIndex(toks, types, value) ==
    Min({k \in 1..Len(toks) : toks[k].type \in types /\ toks[k].value = value}
            \cup {Len(toks) + 1})

\* index of the first STRING token that decodes to key
KeyIndex(toks, key) ==
    Min({k \in 1..Len(toks) :
            /\ toks[k].type = "STRING"
            /\ JsonParseString(toks[k].value) = [ok |-> TRUE, val |-> key]}
            \cup {Len(toks) + 1})

\* index of the first token of a node, for trees in which it can be found by
\* the token's text: a pair starts with its key, a container one token before
\* the first token inside it
RECURSIVE FirstToken(_, _)
FirstToken(toks, n) ==
    CASE n.kind = "Comment" -> TokenIndex(toks, {"COMMENT"}, n.raw)
      [] n.kind \in ValueKinds ->
            TokenIndex(toks, {"STRING", "NUMBER", "BOOLEAN", "NULL"}, n.raw)
      [] n.kind = "Pair" -> KeyIndex(toks, n.key)
      [] n.kind \in ContainerKinds ->
            Min({FirstToken(toks, n.children[i]) : i \in 1..Len(n.children)}) - 1

\* the tokens of the root value: no text occurs twice among its comments,
\* strings and numbers, and no container in it is empty
Unambiguous(toks, root, last) ==
    /\ \A j, k \in 1..last :
          (/\ j # k
           /\ toks[j].type \in {"COMMENT", "STRING", "NUMBER"})
          => toks[j].value # toks[k].value
    /\ \E nodes \in {NodesOf(root)} :
          \A i \in 1..Len(nodes) :
              nodes[i].kind \in ContainerKinds => Len(nodes[i].children) > 0

\* the children of every container of the tree are in increasing order of Place
InOrderOf(Place(_, _), toks, root) ==
    \E nodes \in {NodesOf(root)} :
        \A i \in 1..Len(nodes) :
            nodes[i].kind \in ContainerKinds =>
                \E places \in {[j \in 1..Len(nodes[i].children) |->
                                  Place(toks, nodes[i].children[j])]} :
                    \A j, k \in 1..Len(places) : j < k => places[j] < places[k]

\* where a child stands: a pair at the first token of its value
ValueToken(toks, n) ==
    IF n.kind = "Pair" THEN FirstToken(toks, n.children[1]) ELSE FirstToken(toks, n)

\* C20, as stated: the children of every container are in the order of their
\* first tokens, the key being the first token of a pair.
SourceOrder ==
    Parsed =>
        \E toks \in {SourceTokens} :
            Unambiguous(toks, ast, parse(toks).pos - 1)
            => InOrderOf(FirstToken, toks, ast)

\* C20, amended: the children of every container are in the order of their
\* first tokens, a pair counting from the first token of its value: the
\* comments between its key and its value stand before the pair.
SourceOrderByValue ==
    Parsed =>
        \E toks \in {SourceTokens} :
            Unambiguous(toks, ast, parse(toks).pos - 1)
            => InOrderOf(ValueToken, toks, ast)

\* C20 witness: a comment between key and colon, one between colon and value.
HoistedCommentsWitness ==
    /\ Parsed
    /\ source = "{\"a\"/*k*/://v\n1}"
    /\ Unambiguous(SourceTokens, ast, parse(SourceTokens).pos - 1)
    /\ ast.kind = "Object"
    /\ [i \in 1..Len(ast.children) |-> ast.children[i].kind]
          = <<"Comment", "Comment", "Pair">>
    /\ [i \in 1..Len(ast.children) |-> ast.children[i].raw] = <<"/*k*/", "//v", "">>

-----------------------------------------------------------------------------
(* The extension *)

Returned == pc \in {"returned", "applied"}

\* the edit that replaces the whole of the document s by t
WholeDocument(s, t) == <<Replace(0, Len(s), t)>>

\* C15: doFormat returns one edit, replacing the whole document by what
\* format() returned, exactly when format() was called (the document is not
\* blank), returned, and what it returned differs from the document; in every
\* other case it returns no edit, and the document stays as it was.  Until
\* doFormat returns there is no edit and the document is untouched.
AtomicApplication ==
    IF Returned
    THEN \E r \in {IF Blank(source) THEN [err |-> NoError, out |-> source]
                    ELSE format(config, source)} :
            LET changed == r.err = NoError /\ r.out # source
            IN  /\ edits = IF changed THEN WholeDocument(source, r.out) ELSE <<>>
                /\ pc = "returned" => text = source
                /\ pc = "applied" => text = IF changed THEN r.out ELSE source
    ELSE edits = <<>> /\ text = source

\* C15 witness: a document that format() changes has been replaced as a whole.
ReplacedWitness ==
    /\ pc = "applied"
    /\ source = "[1,2]"
    /\ edits = WholeDocument("[1,2]", "[1, 2]")
    /\ text = "[1, 2]"

\* the configuration is looked up for a document that is not blank
Looked == pc \notin {"start", "load"} /\ ~Blank(source)

NeitherExists(f) == ~f.root.exists /\ ~f.vscode.exists

\* disk with the generated file in .vscode
Generated(f) == [f EXCEPT !.vscodeDir = TRUE, !.vscode = GeneratedFile]

NotWrittenWitness ==
    /\ Looked
    /\ disk.workspace
    /\ NeitherExists(disk)
    /\ ~disk.writable
    /\ config = DEFAULT_CONFIG
    /\ fs = disk

-----------------------------------------------------------------------------
(* Calls that share the regexes *)

Calling == pc \in {"lex", "parse", "layout"}

\* C17: what a call returns or throws is what format() gives for its text and
\* its configuration alone, whatever the calls before it were; its tokens are
\* those of a tokenizer that starts from fresh regexes; and a call changes
\* neither its configuration nor its text.
Independence ==
    /\ [](pc \in {"done", "failed"} =>
             /\ <<err, out>> = <<format(config, text).err, format(config, text).out>>
             /\ \E fresh \in {tokenizeShared(text, InitialRegexes)} :
                   IF fresh.err = NoError THEN tokens = fresh.tokens
                   ELSE err = fresh.err)
    /\ [][Calling => (config' = config /\ text' = text)]_vars

\* C17 witness: a call has returned although it began with a regex whose
\* lastIndex, left by a call before it, lies beyond the end of its text.
CarriedRegexesWitness ==
    /\ pc = "done"
    /\ text = "1"
    /\ out = "1"
    /\ regexes["RBRACKET"] > Len(text)
    /\ regexes # tokenizeShared(text, InitialRegexes).regexes

-----------------------------------------------------------------------------
(* The text format() returns, read back: in the second call text is what   *)
(* the first call returned and tokens are its tokens                       *)

Returned1 == pass = 2 /\ tokens # <<>>

ScalarTypes == {"STRING", "NUMBER", "BOOLEAN", "NULL"}

WithoutComments(toks) == SelectSeq(toks, LAMBDA k : k.type # "COMMENT")

\* JSON, strictly: the index after the value that starts at toks[i], 0 if
\* there is none; members are separated by one comma and none trails
RECURSIVE StrictValueEnd(_, _)
RECURSIVE StrictItemsEnd(_, _, _)
StrictAfterItem(toks, v, closer) ==
    IF v = 0 \/ v > Len(toks) THEN 0
    ELSE IF toks[v].type = "COMMA" THEN StrictItemsEnd(toks, v + 1, closer)
    ELSE IF toks[v].type = closer THEN v + 1
    ELSE 0
StrictItemsEnd(toks, i, closer) ==
    IF closer = "RBRACE"
    THEN IF i + 1 <= Len(toks) /\ toks[i].type = "STRING" /\ toks[i + 1].type = "COLON"
         THEN StrictAfterItem(toks, StrictValueEnd(toks, i + 2), closer)
         ELSE 0
    ELSE StrictAfterItem(toks, StrictValueEnd(toks, i), closer)
StrictValueEnd(toks, i) ==
    IF i = 0 \/ i > Len(toks) THEN 0
    ELSE IF toks[i].type \in ScalarTypes THEN i + 1
    ELSE IF toks[i].type \in Opening
    THEN LET closer == IF toks[i].type = "LBRACE" THEN "RBRACE" ELSE "RBRACKET"
         IN  IF i + 1 <= Len(toks) /\ toks[i + 1].type = closer THEN i + 2
             ELSE StrictItemsEnd(toks, i + 1, closer)
    ELSE 0

StrictJson(toks) == StrictValueEnd(toks, 1) = Len(toks) + 1

\* no comment of s ends in a comma: no comma of s stands at the end of s, of
\* a line or of a block comment
NoCommaEndsComment(s) ==
    \A j \in 1..Len(s) :
        At(s, j) = "," =>
            /\ j < Len(s)
            /\ At(s, j + 1) \notin {"\n", "\r"}
            /\ ~StartsWithAt(s, j + 1, "*/")

\* C21: in the text format() returns, comments aside, every value of a
\* container but the last is followed by one comma and the last by none (so
\* none when the last children are comments, and none at all in a container
\* of comments); every comma stands directly behind the value it follows, on
\* that value's line, never behind a comment; and no comment has a comma
\* added to it.
CommaPlacement ==
    Returned1 =>
        /\ StrictJson(WithoutComments(tokens))
        /\ \A k \in 1..Len(tokens) :
              tokens[k].type = "COMMA" =>
                  /\ k > 1
                  /\ tokens[k - 1].type \in ScalarTypes \cup Closing
                  /\ tokens[k - 1].line = tokens[k].line
        /\ NoCommaEndsComment(source) =>
              \A k \in 1..Len(tokens) :
                  tokens[k].type = "COMMENT" => ~EndsWith(tokens[k].value, ",")

\* C21 witness: two values, then two comments; a container of one comment.
TrailingCommentsWitness ==
    /\ Returned1
    /\ source = "[1,20,/*b*/[/*b*/]]"
    /\ text = "[\n\t1,\n\t20,\n\t/*b*/\n\t[\n\t\t/*b*/\n\t]\n]"

\* the lines of s from index i on, without their "\n"
RECURSIVE SplitLines(_, _)
SplitLines(s, i) ==
    IF FirstIn(s, i, {"\n"}) > Len(s) THEN <<SubSeq(s, i, Len(s))>>
    ELSE <<SubSeq(s, i, FirstIn(s, i, {"\n"}) - 1)>>
            \o SplitLines(s, FirstIn(s, i, {"\n"}) + 1)

\* no comment spans lines
SingleLineComments(toks) ==
    \A k \in 1..Len(toks) :
        toks[k].type = "COMMENT" =>
            \A j \in 1..Len(toks[k].value) : At(toks[k].value, j) \notin {"\n", "\r"}

\* the opening bracket of the container toks[k] stands in: itself for none
Enclosing(toks, k) ==
    Max({j \in 1..(k - 1) :
            toks[j].type \in Opening /\ DepthAfter(toks, j + 1, k - 1) = 0}
        \cup {k})

\* toks[k] is the first token of a child of a container: a comment, or what
\* follows the opening bracket, a comma or a comment
StartsChild(toks, k) ==
    /\ k > 1
    /\ toks[k].type \notin Closing \cup {"COMMA", "COLON"}
    /\ \/ toks[k].type = "COMMENT"
       \/ toks[k - 1].type \in Opening \cup {"COMMA", "COMMENT"}

\* C22: in the text format() returns, a container is on one line or
\* expanded; in an expanded container every child, value or comment, and the
\* closing bracket begin a line; and every line begins with the indent unit
\* repeated once for every container open at that place, the closing bracket
\* with one less.
Indentation ==
    (Returned1 /\ SingleLineComments(tokens)) =>
        /\ \A k \in 2..Len(tokens) :
              \E j \in {Enclosing(tokens, k)} :
                  j < k =>
                      IF tokens[j + 1].line = tokens[j].line
                      THEN tokens[k].line = tokens[j].line
                      ELSE (StartsChild(tokens, k) \/ tokens[k].type \in Closing)
                           => tokens[k - 1].line < tokens[k].line
        /\ \E lines \in {SplitLines(text, 1)} :
              \A k \in 1..Len(tokens) :
                  (k = 1 \/ tokens[k - 1].line < tokens[k].line) =>
                      StartsWithAt(lines[tokens[k].line], 1,
                          Repeat(indentStr(config),
                                 DepthAfter(tokens, 1, k - 1)
                                    - (IF tokens[k].type \in Closing THEN 1 ELSE 0))
                          \o tokens[k].value)

\* C22 witness: containers three deep, in an object and in an array, with an
\* indent unit of WideIndent spaces.
NestedIndentWitness ==
    /\ Returned1
    /\ source = "[[1,[2,/*b*/]],{\"a\":{\"b\":[/*b*/]}}]"
    /\ config.indent = [style |-> "space", width |-> WideIndent]
    /\ config.file_handling.newline = "LF"
    /\ \E lines \in {SplitLines(text, 1)} :
          /\ Len(lines) = 16
          /\ lines[5] = Repeat(" ", 3 * WideIndent) \o "2"
          /\ lines[7] = Repeat(" ", 2 * WideIndent) \o "]"
          /\ lines[12] = Repeat(" ", 4 * WideIndent) \o "/*b*/"

-----------------------------------------------------------------------------
(* Commas *)

\* a tree, node by node, parents before children: kind, text, key, children
Outline(n) ==
    [i \in 1..Len(NodesOf(n)) |->
        <<NodesOf(n)[i].kind, NodesOf(n)[i].raw, NodesOf(n)[i].key,
          Len(NodesOf(n)[i].children)>>]

NoCommas(toks) == SelectSeq(toks, LAMBDA k : k.type # "COMMA")

\* toks with a comma put before toks[p]
CommaBefore(toks, p) ==
    SubSeq(toks, 1, p - 1) \o <<Token("COMMA", ",", toks[p].line)>>
        \o SubSeq(toks, p, Len(toks))

\* the token before toks[p] that is not a comment; the one after toks[q]
Before(toks, p) == Max({q \in 1..(p - 1) : toks[q].type # "COMMENT"} \cup {0})
After(toks, q) ==
    Min({r \in (q + 1)..Len(toks) : toks[r].type # "COMMENT"} \cup {Len(toks) + 1})

\* in tokens that parse: toks[q] is a key, it is a string and a colon follows
IsKey(toks, q) ==
    /\ toks[q].type = "STRING"
    /\ After(toks, q) <= Len(toks)
    /\ toks[After(toks, q)].type = "COLON"

\* a child or the closing bracket is expected at p: what stands before it,
\* comments aside, is neither a key nor a colon
ChildExpected(toks, p) ==
    /\ toks[Before(toks, p)].type # "COLON"
    /\ ~IsKey(toks, Before(toks, p))

\* C23: when the tokens parse, the tree is that of the tokens with every
\* comma taken out; a further comma at any place in the root container where
\* a child or the closing bracket is expected leaves the tree as it is; a
\* comma after a key or after a colon makes the parser fail.
CommaTolerance ==
    (pass = 1 /\ pc \in {"layout", "done"}) =>
        \E shape \in {Outline(ast)} :
            /\ \E bare \in {parse(NoCommas(tokens))} :
                  bare.err = NoError /\ Outline(bare.node) = shape
            /\ tokens[FirstValueToken(tokens)].type \in Opening =>
                  \A p \in (FirstValueToken(tokens) + 1)..(parse(tokens).pos - 1) :
                      \E more \in {parse(CommaBefore(tokens, p))} :
                          IF ChildExpected(tokens, p)
                          THEN more.err = NoError /\ Outline(more.node) = shape
                          ELSE more.err # NoError

\* C23 witness: commas doubled, leading and trailing, in nested containers.
ManyCommasWitness ==
    /\ pass = 1
    /\ pc = "done"
    /\ source = "[ ,,[ 1 ,] ,,{ } ,] "
    /\ Outline(ast) = <<<<"Array", "", "", 2>>, <<"Array", "", "", 1>>,
                        <<"Number", "1", "", 0>>, <<"Object", "", "", 0>>>>

\* C23 witness of the error: a comma between a key and its colon.
CommaAfterKeyWitness ==
    /\ pass = 1
    /\ pc = "failed"
    /\ source = "{ \"a\" ,: 1 } "
    /\ err.msg = "Expected token type"

-----------------------------------------------------------------------------
(* Strings *)

\* the first quote at or after p that no backslash escapes, when a backslash
\* always takes the character after it; 0 when there is none
RECURSIVE FirstUnescapedQuote(_, _)
FirstUnescapedQuote(s, p) ==
    IF p > Len(s) THEN 0
    ELSE IF At(s, p) = "\\" THEN FirstUnescapedQuote(s, p + 2)
    ELSE IF At(s, p) = "\"" THEN p
    ELSE FirstUnescapedQuote(s, p + 1)

\* C24: a string token that starts at a quote ends at the first following
\* quote that is not escaped, a backslash always taking the character after
\* it; where there is no such quote nothing is tokenized as a string. Stated
\* of the STRING pattern at every quote of the text, and of the first token
\* of a text that begins with a quote.
StringExtent ==
    (pass = 1 /\ pc # "lex") =>
        /\ \A i \in 1..Len(source) :
              At(source, i) = "\"" =>
                  MatchString(source, i) = FirstUnescapedQuote(source, i + 1)
        /\ At(source, 1) = "\"" =>
              IF FirstUnescapedQuote(source, 2) = 0
              THEN pc = "failed" /\ tokens = <<>>
              ELSE /\ tokens # <<>>
                   /\ tokens[1].type = "STRING"
                   /\ tokens[1].value = SubSeq(source, 1, FirstUnescapedQuote(source, 2))

\* C24 witness: the closing quote is escaped and no quote follows, and the
\* text is one string token all the same.
EscapedClosingQuoteWitness ==
    /\ pass = 1
    /\ pc # "lex"
    /\ source = "\"a\\\""
    /\ FirstUnescapedQuote(source, 2) = 0
    /\ Len(tokens) = 1
    /\ tokens[1].type = "STRING"
    /\ tokens[1].value = source

-----------------------------------------------------------------------------
(* Termination *)

\* the tokenizer's loop: an iteration that does not end the loop moves pos on
TokenizerAdvances ==
    (pc = "lex" /\ pc' = "lex") => lexer'.pos > lexer.pos

\* the parser's loops, the one of parse() over the leading comments included:
\* an iteration that does not end parse() consumes a token
ParserConsumes ==
    (pc = "parse" /\ pc' = "parse") => parser'.pos > parser.pos

\* formatNode: a call made by a call on a node is on one of its children
DescendsToChild ==
    (pc = "layout" /\ Len(calls') > Len(calls)) =>
        /\ Len(calls') = Len(calls) + 1
        /\ \E i \in 1..Len(NodeAt(ast, calls[Len(calls)].path).children) :
              calls'[Len(calls')].path = Append(calls[Len(calls)].path, i)

Ended == pc \in {"done", "failed"}

\* an invariant of StepSpec: what the loops built is what tokenize, parse and
\* format give for the same text
SameAsCalled ==
    /\ pc \in {"parse", "layout", "done"} =>
          tokenize(text).err = NoError /\ tokens = tokenize(text).tokens
    /\ pc \in {"layout", "done"} =>
          parse(tokens).err = NoError /\ Outline(ast) = Outline(parse(tokens).node)
    /\ pc = "failed" =>
          /\ format(config, text).err.msg = err.msg
          /\ format(config, text).err.line = err.line
    /\ pc = "done" =>
          /\ format(config, text) = [err |-> NoError, out |-> out]
          /\ formatRun(config, text).drops = drops

\* C25: every call of format on a finite text ends, with the result or the
\* error of the call: every iteration of the tokenizer's loop moves the cursor
\* on by at least one character, every iteration of the parser's loops
\* consumes a token or ends the loop, and every call formatNode makes is on a
\* child of the node it was called on.
Termination ==
    /\ [][TokenizerAdvances /\ ParserConsumes /\ DescendsToChild]_vars
    /\ [](Ended => (pc = "failed" <=> err # NoError))
    /\ <>Ended

\* C25 witness: a call that went through nested loops of the parser and
\* nested calls of formatNode, and returned.
NestedCallEndedWitness ==
    /\ pc = "done"
    /\ source = "[[1,[2,/*b*/]],{\"a\":{\"b\":[/*b*/]}}]"
    /\ lexer.pos = Len(text) + 1
    /\ parser.pos = Len(tokens) + 1
    /\ parser.frames = <<>>
    /\ calls = <<>>
    /\ defaults = DEFAULT_CONFIG
    /\ out = format(config, text).out

-----------------------------------------------------------------------------
(* Containers in containers *)

\* the bracket that closes the container opened at toks[k]
ClosingOf(toks, k) ==
    Min({j \in k..Len(toks) : DepthAfter(toks, k, j) = 0} \cup {Len(toks) + 1})

\* C26: in the text format() returns, a container whose brackets are on one
\* line holds scalars only: a container that holds a container is expanded,
\* whatever its key, however short it would be on one line, whatever the
\* threshold.
NestedContainersExpand ==
    Returned1 =>
        \A k \in 1..Len(tokens) :
            tokens[k].type \in Opening =>
                \E c \in {ClosingOf(tokens, k)} :
                    /\ c <= Len(tokens)
                    /\ tokens[c].line = tokens[k].line =>
                          \A j \in (k + 1)..(c - 1) :
                              tokens[j].type \in ScalarTypes \cup {"COLON", "COMMA"}

\* C26 witness: arrays of arrays under a coordinate field and under a
\* control-flow field, all short, threshold 50.
NestedUnderFieldsWitness ==
    /\ Returned1
    /\ config = DEFAULT_CONFIG
    /\ source = "{\"roi\":[[1,2],[3,4]],\"next\":[[\"x\"],{\"roi\":[5,6]}]}"
    /\ text = "{\n\t\"roi\": [\n\t\t[1, 2],\n\t\t[3, 4]\n\t],\n\t\"next\": [\n\t\t[\"x\"],\n\t\t{\n\t\t\t\"roi\": [5, 6]\n\t\t}\n\t]\n}"

-----------------------------------------------------------------------------
(* The configuration readConfig returns *)

Sections == {"indent", "posix", "formatting", "file_handling"}

\* the field of a configuration at <<section, key>>
Setting(cfg, at) == IF at[1] = "version" THEN cfg.version ELSE cfg[at[1]][at[2]]

\* readConfig has returned
Read == pc # "load"

\* C27: the configuration readConfig returns has every field of the default
\* one; a field the file sets has the file's value, a field it omits the
\* default; a file that cannot be read or parsed gives the default
\* configuration, and formatting goes on; DEFAULT_CONFIG stays as it is.
ConfigurationMerge ==
    /\ defaults = DEFAULT_CONFIG
    /\ Read =>
          /\ DOMAIN config = DOMAIN DEFAULT_CONFIG
          /\ \A s \in Sections : DOMAIN config[s] = DOMAIN DEFAULT_CONFIG[s]
          /\ IF fs.root.valid
             THEN \A at \in AllSettings :
                     Setting(config, at) =
                         IF at \in fs.root.has THEN Setting(fs.root.val, at)
                         ELSE Setting(DEFAULT_CONFIG, at)
             ELSE /\ config = DEFAULT_CONFIG
                  /\ pc \in {"lex", "parse", "layout", "done", "failed"}

\* C27 witness: the file sets version to the empty string and the
\* configuration has the default version.
EmptyVersionWitness ==
    /\ Read
    /\ fs.root.valid
    /\ <<"version", "">> \in fs.root.has
    /\ fs.root.val.version = ""
    /\ config.version = DEFAULT_CONFIG.version
    /\ pc = "done"

-----------------------------------------------------------------------------
(* What follows the root value *)

\* index of the token that ends the root value: the first token after the
\* leading comments if it is a scalar, the bracket that closes it if it opens
\* a container; 0 if there is no such token
RootEnd(toks) ==
    LET from == FirstValueToken(toks)
    IN  IF from > Len(toks) THEN 0
        ELSE IF toks[from].type \in ScalarTypes THEN from
        ELSE IF toks[from].type \in Opening
        THEN Min({k \in from..Len(toks) : DepthAfter(toks, from, k) = 0} \cup {Len(toks) + 1})
                 % (Len(toks) + 1)
        ELSE 0

\* s cut right after its k-th token: its shortest prefix with toks[1..k]
CutAfter(s, toks, k) ==
    SubSeq(s, 1, Min({n \in 0..Len(s) :
                         tokenize(SubSeq(s, 1, n)) =
                             [err |-> NoError, tokens |-> SubSeq(toks, 1, k)]}))

-----------------------------------------------------------------------------
(* The key a container is decided with *)

\* the container the node at path is a child of
ParentAt(root, path) == NodeAt(root, SubSeq(path, 1, Len(path) - 1))

\* the node at path is the root or an element of an array
Keyless(root, path) == path = <<>> \/ ParentAt(root, path).kind = "Array"

\* the object key the node at path is the immediate value of; the empty
\* string for the root and for an element of an array
KeyOf(root, path) ==
    IF Keyless(root, path) THEN ""
    ELSE ParentAt(root, path).children[path[Len(path)]].key

\* the generic rule: no comment, no container among the children, and the
\* one-line form within the threshold
Generic(cfg, node) ==
    /\ \A i \in 1..Len(node.children) :
           /\ ~IsComment(node.children[i])
           /\ ValuesOf(node)[i].kind \notin ContainerKinds
    /\ Len(InlineRendering(node)) <= cfg.formatting.simple_array_threshold

\* the calls of formatNode under way that decide on a container and have
\* decided
Decided ==
    {j \in 1..Len(calls) :
        /\ ~calls[j].inlineMode
        /\ calls[j].phase \in {"inline", "expanded"}
        /\ NodeAt(ast, calls[j].path).kind \in ContainerKinds}

\* C29: every call of formatNode that decides on a container has for key the
\* object key the container is the immediate value of, the empty string for
\* the root and for array elements; and a non-empty container that is the
\* root or an array element is inline exactly if the generic rule says so.
DirectKeyOnly ==
    pc = "layout" =>
        /\ \A j \in 1..Len(calls) :
               ~calls[j].inlineMode => calls[j].key = KeyOf(ast, calls[j].path)
        /\ \A j \in Decided :
               \E node \in {NodeAt(ast, calls[j].path)} :
                   (Keyless(ast, calls[j].path) /\ Len(node.children) > 0) =>
                       (calls[j].phase = "inline" <=> Generic(config, node))

\* C29 witness: with the empty string listed as a control-flow field, the
\* array [1, 2] that is the first element of the root array is expanded.
EmptyFieldNameWitness ==
    /\ pc = "layout"
    /\ source = "[[1, 2], {\"a\": 1}, []]"
    /\ "" \in config.formatting.control_flow_fields
    /\ Len(calls) = 2
    /\ calls[2].path = <<1>>
    /\ calls[2].key = ""
    /\ calls[2].phase = "expanded"
    /\ Generic(config, NodeAt(ast, <<1>>))

-----------------------------------------------------------------------------
(* The promise of formatWithExecutable *)

Settles == external.promise.state # "pending"

\* a settled promise keeps its outcome
OutcomeKept == Settles => external'.promise = external.promise

\* resolved: the child closed with code 0 and the value is what it wrote
ResolvedOnCleanClose ==
    external.promise.state = "resolved" =>
        /\ external.child = "closed"
        /\ external.code = "0"
        /\ external.promise.value = external.stdout

\* closed with another code, failed to spawn, or timed out: rejected once
\* the event has been handled
RejectedOnFailure ==
    (\/ external.child = "closed" /\ external.code # "0"
     \/ external.errored
     \/ external.timer = "fired") =>
        external[Own(external)].state = "rejected"

\* the built-in backend: the call settles
BuiltinSettles == (external.backend = "builtin") ~> Settles

\* C30: every call of formatWithExecutable settles, with either backend and
\* whatever the child does; it resolves only with the stdout of a child that
\* closed with code 0, is rejected after a non-zero exit, a spawn error or
\* the timeout, and a settled outcome never changes.
CallSettles ==
    /\ [][OutcomeKept]_vars
    /\ []ResolvedOnCleanClose
    /\ []RejectedOnFailure
    /\ <>Settles

\* C30 witness: the Python backend, the child running and no timer.
HungPythonWitness ==
    /\ pc = "await"
    /\ external.backend = "python"
    /\ external.child = "running"
    /\ external.timer = "none"
    /\ external.inner.state = "pending"
    /\ external.promise.state = "pending"

============================================================================
